---- MODULE Spec2Model ----
(***************************************************************************)
(* Transport and dispatch layer of the Unity MCP bridge server:            *)
(*   - UnityConnection.receive_full_response (framed receive)              *)
(*   - send_command_with_retry (reload-aware dispatcher)                   *)
(*   - PluginHub (WebSocket session hub)                                   *)
(*   - UnityConnectionPool._resolve_instance_id (instance resolution)      *)
(* Each component has its own specification over its own variables; the    *)
(* variables of the other components stay at their initial value.          *)
(***************************************************************************)
EXTENDS Integers, Sequences, FiniteSets, TLC

VARIABLES
    \* ---- framed receive (unity_connection.py, receive_full_response)
    frames,           \* what the peer wrote: a sequence of frame payload lengths/payloads
    stream,           \* bytes of the socket not yet read
    stream_end,       \* what the socket does when the bytes run out: "closed" | "stalled"
    heartbeat_count,  \* local heartbeat_count
    recv_elapsed,     \* time.monotonic() - heartbeat_started, in seconds
    recv_pc,          \* "reading" | "returned" | "timeout" | "error"
    recv_result,      \* payload returned to the caller
    \* ---- reload-aware dispatcher (unity_connection.py, send_command_with_retry)
    retry_cfg,        \* the call's inputs: max_retries, retry_ms, max_wait_s (ms), peer script
    retry_pc,         \* "call" | "check" | "resend" | "after" | "done" | "raised"
    now,              \* time.monotonic(), in ms
    wait_started,     \* <<>> (None) or <<t>>
    retries,          \* local retries
    response,         \* last value of conn.send_command(...)
    reloads_seen,     \* reloading responses the peer has given so far
    last_pause,       \* duration of the last sleep plus the last resend, ms
    retry_ret,        \* value returned to the caller, <<>> before the return
    \* ---- session hub (plugin_hub.py, PluginHub)
    ws_state,         \* per WebSocket: "unconnected" | "open" | "closing" | "closed"
    connections,      \* PluginHub._connections: session id -> WebSocket
    registry,         \* PluginRegistry sessions: session id -> project hash
    pending,          \* PluginHub._pending: command id -> owning session id
    fut,              \* the asyncio.Future of each command
    call,             \* each send_command call: its position, arguments and outcome
    next_sid,         \* next fresh session id (uuid4)
    next_cmd,         \* next fresh command id (uuid4)
    \* ---- one send_with_unity_instance call on the HTTP transport, with its clock
    fast_cfg,         \* command type, requested timeout, readiness window, peer behaviour
    fast_pc,          \* "start" | "probe" | "ping" | "sleep" | "send" | "done"
    fast_t,           \* time.monotonic() since the call, in 0.1 s
    fast_deadline,    \* deadline of the readiness probe
    fast_connected,   \* the session's WebSocket is still registered
    fast_ponged,      \* a probe ping has been answered with pong
    fast_sent,        \* execute_command for the command itself was sent to the peer
    fast_unity_timeout, \* timeout field of that execute_command, <<>> before
    fast_server_wait, \* server_wait_s of that send_command, <<>> before
    fast_ret,         \* what the caller of send_with_unity_instance gets, <<>> before
    \* ---- UnityConnectionPool._resolve_instance_id
    res_instances,    \* the discovered instances (list of UnityInstanceInfo)
    res_identifier,   \* instance_identifier: [given, text]
    res_default,      \* self._default_instance_id: [given, text]
    res_pc,           \* "call" | "done"
    res_result,       \* the instance returned or the ConnectionError raised
    \* ---- PortDiscovery.discover_all_unity_instances
    scan_files,       \* the status files in the order glob gives them
    scan_next,        \* index of the file the loop handles next
    scan_by_port,     \* instances_by_port, its values in insertion order
    scan_pc,          \* "loop" | "done"
    scan_result,      \* the list returned or the exception raised
    \* ---- UnityConnection.connect / disconnect / send_command
    conn_cfg,         \* config.require_framing, config.max_retries
    sock,             \* self.sock: "none" | "open"
    os_socket_open,   \* the socket created by create_connection is not closed
    use_framing,      \* self.use_framing
    conn_wire,        \* handshake bytes the peer has sent and connect() has not read
    conn_buf,         \* buf of the handshake loop
    conn_pc,          \* where the running call stands, "idle" between calls
    conn_caller,      \* who called connect(): "api" | "send_command"
    conn_ret,         \* return value of the last connect(), <<>> before
    conn_attempt,     \* attempt of send_command's loop
    conn_violation,   \* a reply of this send_command call was a protocol violation
    conn_error_reply, \* a reply of this send_command call had status error
    send_ret,         \* outcome of the last send_command
    \* ---- concurrent send_command callers on one UnityConnection
    io_pc,            \* per caller: where its send_command stands
    io_call,          \* per caller: number of the call it is making
    io_attempt,       \* per caller: attempt of the loop
    io_lock,          \* holder of self._io_lock, 0 when free
    io_conn_lock,     \* holder of self._conn_lock, 0 when free
    io_sock,          \* self.sock is set
    io_last,          \* per caller: number of the call it wrote to the peer last
    io_ready,         \* connect() has read the handshake of the socket in self.sock
    io_failed,        \* a receive failed or timed out on the socket in self.sock
    \* ---- status-file preflight of UnityConnection.send_command
    pre_files,        \* the status files, most recently modified first
    pre_instance_id,  \* self.instance_id: [given, text]
    pre_pc,           \* "call" | "read" | "loop" | "done"
    pre_status,       \* what read_status_file returned, <<>> for None
    pre_ret,          \* the MCPResponse returned by the preflight, <<>> before
    \* ---- async_send_command_with_retry to an instance that is reloading
    pool_cfg,         \* max_retries, retry_ms, max_wait_ms of the call
    pool_has_conn,    \* target.id in self._connections
    pool_pc,          \* where the call stands
    pool_now,         \* time.monotonic(), in ms
    pool_wait_started, \* wait_started: <<>> (None) or <<t>>
    pool_retries,     \* local retries
    pool_response,    \* last value of conn.send_command(...)
    pool_ret,         \* what the awaiting caller gets, <<>> before
    \* ---- PluginHub._resolve_session_id and its caller send_command_for_instance
    sess_cfg,         \* the call: unity_instance and UNITY_MCP_SESSION_RESOLVE_MAX_WAIT_S
    sess_registry,    \* PluginRegistry: session id -> project hash
    sess_next_sid,    \* the next session id the hub hands out
    sess_pc,          \* position in the call
    sess_t,           \* time.monotonic(), in sleep intervals
    sess_deadline,    \* deadline of the polling loop
    sess_session_id,  \* local session_id of _resolve_session_id
    sess_sessions,    \* the sessions dict the last _try_once listed
    sess_polled_at,   \* time of the last _try_once
    sess_first,       \* outcome of the first _try_once
    sess_res,         \* how _resolve_session_id ended
    sess_ret,         \* how send_command_for_instance ended
    \* ---- UnityInstanceMiddleware: active instance per session key
    mw_env,           \* transport mode, PluginHub.is_configured(), ids of hub sessions and of discovered instances
    mw_active,        \* self._active_by_key: session key -> <<>> (absent) or <<instance id>>
    mw_pc,            \* per caller context: idle, or hook between get_active_instance and the auto-select
    mw_last,          \* the operation of the last step and what it did
    \* ---- UnityConnectionPool: the connections it holds
    cp_instances,     \* what a scan of the status files finds now
    cp_known,         \* self._known_instances as a list
    cp_fresh,         \* the cached scan is younger than _scan_interval
    cp_connections,   \* self._connections: instance id -> [obj, instance_id, port]
    cp_next_obj,      \* identity of the next UnityConnection object
    cp_last,          \* the operation of the last step and what it returned
    \* ---- run_tests behind the preflight gate of services/tools/preflight.py
    rt_cfg,           \* the environment of one call: pytest or not, editor state, the reply of the peer
    rt_pc,            \* position in the call
    rt_t,             \* time.monotonic() in sleeps of the compile wait
    rt_polls,         \* editor state snapshots fetched so far
    rt_sent,          \* the run_tests command went to the transport
    rt_ret,           \* what run_tests returned
    \* ---- refresh_unity and the dirty flag of the external changes scanner
    rf_cfg,           \* one call: wait_for_ready, the answer of the transport, how the instance is known, readiness
    rf_pc,            \* position in the call
    rf_polls,         \* get_editor_state calls of the wait loop so far
    rf_recovered,     \* local recovered_from_disconnect
    rf_dirty,         \* external_changes_scanner._states[inst].dirty of the target instance
    rf_ret,           \* what refresh_unity returned
    \* ---- ExternalChangesScanner
    ecs_states,       \* self._states: instance id -> state, only for the ids seen so far
    ecs_now,          \* _now_unix_ms() in steps of 500 ms
    ecs_fs,           \* newest mtime below the project root of each instance, <<>> without files
    ecs_last          \* the operation of the last step and what it returned

recvVars == <<frames, stream, stream_end, heartbeat_count, recv_elapsed, recv_pc, recv_result>>
retryVars == <<retry_cfg, retry_pc, now, wait_started, retries, response, reloads_seen,
               last_pause, retry_ret>>

hubVars == <<ws_state, connections, registry, pending, fut, call, next_sid, next_cmd>>

fastVars == <<fast_cfg, fast_pc, fast_t, fast_deadline, fast_connected, fast_ponged,
              fast_sent, fast_unity_timeout, fast_server_wait, fast_ret>>

resVars == <<res_instances, res_identifier, res_default, res_pc, res_result>>

scanVars == <<scan_files, scan_next, scan_by_port, scan_pc, scan_result>>

connVars == <<conn_cfg, sock, os_socket_open, use_framing, conn_wire, conn_buf, conn_pc,
              conn_caller, conn_ret, conn_attempt, conn_violation, conn_error_reply, send_ret>>

ioVars == <<io_pc, io_call, io_attempt, io_lock, io_conn_lock, io_sock, io_last, io_ready, io_failed>>

preVars == <<pre_files, pre_instance_id, pre_pc, pre_status, pre_ret>>

poolVars == <<pool_cfg, pool_has_conn, pool_pc, pool_now, pool_wait_started, pool_retries, pool_response, pool_ret>>

sessVars == <<sess_cfg, sess_registry, sess_next_sid, sess_pc, sess_t, sess_deadline, sess_session_id, sess_sessions, sess_polled_at, sess_first, sess_res, sess_ret>>

mwVars == <<mw_env, mw_active, mw_pc, mw_last>>

cpVars == <<cp_instances, cp_known, cp_fresh, cp_connections, cp_next_obj, cp_last>>

rtVars == <<rt_cfg, rt_pc, rt_t, rt_polls, rt_sent, rt_ret>>

rfVars == <<rf_cfg, rf_pc, rf_polls, rf_recovered, rf_dirty, rf_ret>>

ecsVars == <<ecs_states, ecs_now, ecs_fs, ecs_last>>

notRecv == <<retryVars, hubVars, fastVars, resVars, scanVars, connVars, ioVars, preVars, poolVars, sessVars, mwVars, cpVars, rtVars, rfVars, ecsVars>>
notRetry == <<recvVars, hubVars, fastVars, resVars, scanVars, connVars, ioVars, preVars, poolVars, sessVars, mwVars, cpVars, rtVars, rfVars, ecsVars>>
notHub == <<recvVars, retryVars, fastVars, resVars, scanVars, connVars, ioVars, preVars, poolVars, sessVars, mwVars, cpVars, rtVars, rfVars, ecsVars>>
notFast == <<recvVars, retryVars, hubVars, resVars, scanVars, connVars, ioVars, preVars, poolVars, sessVars, mwVars, cpVars, rtVars, rfVars, ecsVars>>
notRes == <<recvVars, retryVars, hubVars, fastVars, scanVars, connVars, ioVars, preVars, poolVars, sessVars, mwVars, cpVars, rtVars, rfVars, ecsVars>>
notScan == <<recvVars, retryVars, hubVars, fastVars, resVars, connVars, ioVars, preVars, poolVars, sessVars, mwVars, cpVars, rtVars, rfVars, ecsVars>>
notConn == <<recvVars, retryVars, hubVars, fastVars, resVars, scanVars, ioVars, preVars, poolVars, sessVars, mwVars, cpVars, rtVars, rfVars, ecsVars>>

notIo == <<recvVars, retryVars, hubVars, fastVars, resVars, scanVars, connVars, preVars, poolVars, sessVars, mwVars, cpVars, rtVars, rfVars, ecsVars>>

notPre == <<recvVars, retryVars, hubVars, fastVars, resVars, scanVars, connVars, ioVars, poolVars, sessVars, mwVars, cpVars, rtVars, rfVars, ecsVars>>

notPool == <<recvVars, retryVars, hubVars, fastVars, resVars, scanVars, connVars, ioVars, preVars, sessVars, mwVars, cpVars, rtVars, rfVars, ecsVars>>

notSess == <<recvVars, retryVars, hubVars, fastVars, resVars, scanVars, connVars, ioVars, preVars, poolVars, mwVars, cpVars, rtVars, rfVars, ecsVars>>

notMw == <<recvVars, retryVars, hubVars, fastVars, resVars, scanVars, connVars, ioVars, preVars, poolVars, sessVars, cpVars, rtVars, rfVars, ecsVars>>

notCp == <<recvVars, retryVars, hubVars, fastVars, resVars, scanVars, connVars, ioVars, preVars, poolVars, sessVars, mwVars, rtVars, rfVars, ecsVars>>

notRt == <<recvVars, retryVars, hubVars, fastVars, resVars, scanVars, connVars, ioVars, preVars, poolVars, sessVars, mwVars, cpVars, rfVars, ecsVars>>

notRf == <<recvVars, retryVars, hubVars, fastVars, resVars, scanVars, connVars, ioVars, preVars, poolVars, sessVars, mwVars, cpVars, rtVars, ecsVars>>

notEcs == <<recvVars, retryVars, hubVars, fastVars, resVars, scanVars, connVars, ioVars, preVars, poolVars, sessVars, mwVars, cpVars, rtVars, rfVars>>

vars == <<recvVars, retryVars, hubVars, fastVars, resVars, scanVars, connVars, ioVars, preVars, poolVars, sessVars, mwVars, cpVars, rtVars, rfVars, ecsVars>>

(***************************************************************************)
(* Bounds of the model                                                     *)
(***************************************************************************)
MaxFrames == 4            \* frames the peer writes before going silent
MaxPayloadLen == 1        \* longest regular payload, in bytes
MaxCut == 1               \* bytes the peer may leave unsent at the end of the stream
MaxHeartbeatFrames == 3   \* config.max_heartbeat_frames (default 16), scaled down
MaxRecvElapsed == 4       \* cap of the receive clock, seconds

(***************************************************************************)
(* Program constants                                                       *)
(***************************************************************************)
FRAMED_MAX == 67108864    \* 64 * 1024 * 1024
HeaderLen == 8            \* struct '>Q'
HeartbeatWindow == 2      \* config.heartbeat_timeout default 2.0 s

Bytes == {1, 2}

Min(a, b) == IF a < b THEN a ELSE b
Max(a, b) == IF a > b THEN a ELSE b

RECURSIVE PackQ(_, _)
\* struct.pack('>Q', n): n as `width` big-endian bytes.
PackQ(n, width) ==
    IF width = 0 THEN <<>>
    ELSE Append(PackQ(n \div 256, width - 1), n % 256)

RECURSIVE UnpackQ(_)
\* struct.unpack('>Q', header)[0]
UnpackQ(header) ==
    IF header = <<>> THEN 0
    ELSE UnpackQ(SubSeq(header, 1, Len(header) - 1)) * 256 + header[Len(header)]

\* A frame as the peer writes it: 8-byte length prefix, then the payload.  An
\* oversized frame is a header announcing FRAMED_MAX + 1 bytes (the body is
\* never read).
Heartbeat == [len |-> 0, payload |-> <<>>]
Oversized == [len |-> FRAMED_MAX + 1, payload |-> <<>>]
PayloadSet == UNION {[1..n -> Bytes] : n \in 1..MaxPayloadLen}
FrameSet == {Heartbeat, Oversized} \cup {[len |-> Len(p), payload |-> p] : p \in PayloadSet}

EncodeFrame(f) == PackQ(f.len, HeaderLen) \o f.payload

RECURSIVE EncodeFrames(_)
EncodeFrames(fs) ==
    IF fs = <<>> THEN <<>> ELSE EncodeFrame(Head(fs)) \o EncodeFrames(Tail(fs))

FrameSeqs == UNION {[1..n -> FrameSet] : n \in 0..MaxFrames}

DropLast(s, k) == SubSeq(s, 1, Len(s) - Min(k, Len(s)))

(***************************************************************************)
(* Idle values of the components a specification does not exercise          *)
(***************************************************************************)
NoResponse == [type |-> "none"]

RetryIdle ==
    /\ retry_cfg = [max_retries |-> 0, retry_ms |-> 0, max_wait_ms |-> 0,
                    reloads |-> 0, final |-> "success"]
    /\ retry_pc = "idle"
    /\ now = 0
    /\ wait_started = <<>>
    /\ retries = 0
    /\ response = NoResponse
    /\ reloads_seen = 0
    /\ last_pause = 0
    /\ retry_ret = <<>>

EmptyMap == [x \in {} |-> 0]

HubIdle ==
    /\ ws_state = EmptyMap
    /\ connections = EmptyMap
    /\ registry = EmptyMap
    /\ pending = EmptyMap
    /\ fut = EmptyMap
    /\ call = EmptyMap
    /\ next_sid = 0
    /\ next_cmd = 0

IoIdle ==
    /\ io_pc = <<>>
    /\ io_call = <<>>
    /\ io_attempt = <<>>
    /\ io_lock = 0
    /\ io_conn_lock = 0
    /\ io_sock = FALSE
    /\ io_last = <<>>
    /\ io_ready = FALSE
    /\ io_failed = FALSE

PreIdle ==
    /\ pre_files = <<>>
    /\ pre_instance_id = [given |-> FALSE, text |-> <<>>]
    /\ pre_pc = "idle"
    /\ pre_status = <<>>
    /\ pre_ret = <<>>

PoolIdle ==
    /\ pool_cfg = [max_retries |-> 0]
    /\ pool_has_conn = FALSE
    /\ pool_pc = "idle"
    /\ pool_now = 0
    /\ pool_wait_started = <<>>
    /\ pool_retries = 0
    /\ pool_response = [type |-> "none"]
    /\ pool_ret = <<>>

SessIdle ==
    /\ sess_cfg = [unity_instance |-> <<>>, max_wait_raw |-> 0]
    /\ sess_registry = <<>>
    /\ sess_next_sid = 1
    /\ sess_pc = "idle"
    /\ sess_t = 0
    /\ sess_deadline = 0
    /\ sess_session_id = <<>>
    /\ sess_sessions = <<>>
    /\ sess_polled_at = 0
    /\ sess_first = <<>>
    /\ sess_res = [kind |-> "none"]
    /\ sess_ret = [kind |-> "none"]

MwIdle ==
    /\ mw_env = [transport |-> "none"]
    /\ mw_active = <<>>
    /\ mw_pc = <<>>
    /\ mw_last = [kind |-> "none"]

CpIdle ==
    /\ cp_instances = <<>>
    /\ cp_known = <<>>
    /\ cp_fresh = FALSE
    /\ cp_connections = <<>>
    /\ cp_next_obj = 1
    /\ cp_last = [kind |-> "none"]

RtIdle ==
    /\ rt_cfg = [in_pytest |-> FALSE]
    /\ rt_pc = "idle"
    /\ rt_t = 0
    /\ rt_polls = 0
    /\ rt_sent = FALSE
    /\ rt_ret = [kind |-> "none"]

RfIdle ==
    /\ rf_cfg = [wait_for_ready |-> FALSE]
    /\ rf_pc = "idle"
    /\ rf_polls = 0
    /\ rf_recovered = FALSE
    /\ rf_dirty = FALSE
    /\ rf_ret = [kind |-> "none"]

EcsIdle ==
    /\ ecs_states = <<>>
    /\ ecs_now = 0
    /\ ecs_fs = <<>>
    /\ ecs_last = [kind |-> "none"]

ConnIdle ==
    /\ conn_cfg = [require_framing |-> TRUE, max_retries |-> 0]
    /\ sock = "none"
    /\ os_socket_open = FALSE
    /\ use_framing = FALSE
    /\ conn_wire = <<>>
    /\ conn_buf = <<>>
    /\ conn_pc = "unused"
    /\ conn_caller = "api"
    /\ conn_ret = <<>>
    /\ conn_attempt = 0
    /\ conn_violation = FALSE
    /\ conn_error_reply = FALSE
    /\ send_ret = [kind |-> "none"]

ScanIdle ==
    /\ scan_files = <<>>
    /\ scan_next = 0
    /\ scan_by_port = <<>>
    /\ scan_pc = "idle"
    /\ scan_result = [kind |-> "none"]

ResIdle ==
    /\ res_instances = <<>>
    /\ res_identifier = [given |-> FALSE, text |-> <<>>]
    /\ res_default = [given |-> FALSE, text |-> <<>>]
    /\ res_pc = "idle"
    /\ res_result = [kind |-> "none"]

FastIdle ==
    /\ fast_cfg = [command_type |-> "none"]
    /\ fast_pc = "idle"
    /\ fast_t = 0
    /\ fast_deadline = 0
    /\ fast_connected = FALSE
    /\ fast_ponged = FALSE
    /\ fast_sent = FALSE
    /\ fast_unity_timeout = <<>>
    /\ fast_server_wait = <<>>
    /\ fast_ret = <<>>

(***************************************************************************)
(* UnityConnection.receive_full_response, framed mode                      *)
(***************************************************************************)
RecvIdle ==
    /\ frames = <<>>
    /\ stream = <<>>
    /\ stream_end = "closed"
    /\ heartbeat_count = 0
    /\ recv_elapsed = 0
    /\ recv_pc = "idle"
    /\ recv_result = <<>>

\* The call starts with heartbeat_count = 0 on a socket on which the peer has
\* written some frames (the last one possibly not completely).
RecvInit ==
    /\ frames \in FrameSeqs
    /\ \E cut \in 0..MaxCut : stream = DropLast(EncodeFrames(frames), cut)
    /\ stream_end \in {"closed", "stalled"}
    /\ heartbeat_count = 0
    /\ recv_elapsed = 0
    /\ recv_pc = "reading"
    /\ recv_result = <<>>

\* _read_exact(sock, count) succeeds when the socket delivers count bytes.
CanReadExact(count) == Len(stream) >= count
ReadExactData(count) == SubSeq(stream, 1, count)
ReadExactRest(count) == SubSeq(stream, count + 1, Len(stream))

\* _read_exact on a socket that runs dry: recv returns b"" (ConnectionError)
\* or blocks until socket.timeout (re-raised as TimeoutError).
ReadExactFailure == IF stream_end = "closed" THEN "error" ELSE "timeout"

\* time.monotonic() moves on while a read blocks.
ClockAdvance(t) == {t, Min(t + 1, MaxRecvElapsed)}

IsHeartbeatNever(payload_len) == FALSE

IsHeartbeat(payload_len) == payload_len = 0

HeartbeatThresholdReached(count, elapsed) ==
    count >= MaxHeartbeatFrames \/ elapsed > HeartbeatWindow

\* header = self._read_exact(sock, 8) fails
RecvHeaderFail ==
    /\ recv_pc = "reading"
    /\ ~CanReadExact(HeaderLen)
    /\ recv_pc' = ReadExactFailure
    /\ stream' = <<>>
    /\ recv_elapsed' \in ClockAdvance(recv_elapsed)
    /\ UNCHANGED <<frames, stream_end, heartbeat_count, recv_result>>
    /\ UNCHANGED notRecv

\* payload_len == 0: count the heartbeat, raise TimeoutError past the threshold
RecvHeartbeat ==
    /\ recv_pc = "reading"
    /\ CanReadExact(HeaderLen)
    /\ IsHeartbeat(UnpackQ(ReadExactData(HeaderLen)))
    /\ stream' = ReadExactRest(HeaderLen)
    /\ heartbeat_count' = heartbeat_count + 1
    /\ recv_elapsed' \in ClockAdvance(recv_elapsed)
    /\ recv_pc' = IF HeartbeatThresholdReached(heartbeat_count', recv_elapsed')
                  THEN "timeout" ELSE "reading"
    /\ UNCHANGED <<frames, stream_end, recv_result>>
    /\ UNCHANGED notRecv

\* payload_len > FRAMED_MAX: ValueError
RecvOversized ==
    /\ recv_pc = "reading"
    /\ CanReadExact(HeaderLen)
    /\ LET payload_len == UnpackQ(ReadExactData(HeaderLen)) IN
         /\ ~IsHeartbeat(payload_len)
         /\ payload_len > FRAMED_MAX
    /\ stream' = ReadExactRest(HeaderLen)
    /\ recv_elapsed' \in ClockAdvance(recv_elapsed)
    /\ recv_pc' = "error"
    /\ UNCHANGED <<frames, stream_end, heartbeat_count, recv_result>>
    /\ UNCHANGED notRecv

\* payload = self._read_exact(sock, payload_len); return payload
RecvPayload ==
    /\ recv_pc = "reading"
    /\ CanReadExact(HeaderLen)
    /\ LET payload_len == UnpackQ(ReadExactData(HeaderLen)) IN
         /\ ~IsHeartbeat(payload_len)
         /\ payload_len <= FRAMED_MAX
         /\ IF CanReadExact(HeaderLen + payload_len)
            THEN /\ recv_result' = SubSeq(stream, HeaderLen + 1, HeaderLen + payload_len)
                 /\ stream' = ReadExactRest(HeaderLen + payload_len)
                 /\ recv_pc' = "returned"
            ELSE /\ recv_result' = recv_result
                 /\ stream' = <<>>
                 /\ recv_pc' = ReadExactFailure
    /\ recv_elapsed' \in ClockAdvance(recv_elapsed)
    /\ UNCHANGED <<frames, stream_end, heartbeat_count>>
    /\ UNCHANGED notRecv

RecvNext == RecvHeaderFail \/ RecvHeartbeat \/ RecvOversized \/ RecvPayload

InitRecvSpec == RecvInit /\ RetryIdle /\ HubIdle /\ FastIdle /\ ResIdle /\ ScanIdle /\ ConnIdle /\ IoIdle /\ PreIdle /\ PoolIdle /\ SessIdle /\ MwIdle /\ CpIdle /\ RtIdle /\ RfIdle /\ EcsIdle

SpecRecv == InitRecvSpec /\ [][RecvNext]_vars

\* Index of the first frame of fs with a non-zero length, 0 when there is none.
FirstNonZero(fs) ==
    LET idx == {i \in 1..Len(fs) : fs[i].len # 0}
    IN IF idx = {} THEN 0 ELSE CHOOSE i \in idx : \A j \in idx : i <= j

\* C1: in framed mode receive_full_response never returns a heartbeat frame:
\* what it returns is the (non-empty) payload of the first frame with non-zero
\* length, and every heartbeat frame before it was consumed and counted,
\* never returned.
C1_HeartbeatNeverReturned ==
    recv_pc = "returned" =>
        LET i == FirstNonZero(frames) IN
            /\ i > 0
            /\ Len(recv_result) > 0
            /\ recv_result = frames[i].payload
            /\ heartbeat_count = i - 1
            /\ \A j \in 1..(i - 1) : frames[j] = Heartbeat

\* C1 witness: a payload returned after two heartbeat frames were absorbed.
C1_Witness ==
    /\ recv_pc = "returned"
    /\ heartbeat_count = 2
    /\ Len(frames) >= 3

(***************************************************************************)
(* send_command_with_retry: the reload-aware dispatcher                    *)
(***************************************************************************)
MaxReloads == 3           \* reloading responses the peer may give before its final answer
MaxRetriesArg == 2        \* largest max_retries argument tried
MaxSendMs == 30           \* longest time one conn.send_command may take, ms

SleepFloorMs == 50        \* max(50, ...)
SleepCeilMs == 250        \* min(..., 250)
MaxWaitCeilMs == 30000    \* min(max_wait_s, 30.0)

None == <<>>
Some(x) == <<x>>

\* A value conn.send_command can hand back: a dict decoded from the peer's
\* reply, or the MCPResponse of the preflight check.
Resp(type, state, reason, text_reload, retry_after, data_retry_after, hint) ==
    [type |-> type, state |-> state, reason |-> reason, text_reload |-> text_reload,
     retry_after |-> retry_after, data_retry_after |-> data_retry_after, hint |-> hint]

SuccessResponse == Resp("dict", "None", "None", FALSE, None, None, "None")
PreflightReloading == Resp("mcp", "None", "None", TRUE, None, None, "retry")

RetryAfterChoices == {None, Some(20), Some(100), Some(400)}

ReloadingResponses ==
    {Resp("dict", "reloading", "None", FALSE, r, None, "None") : r \in RetryAfterChoices}
    \cup {Resp("dict", "None", "Reloading", FALSE, None, r, "None") : r \in RetryAfterChoices}
    \cup {Resp("dict", "None", "None", TRUE, None, None, "None"), PreflightReloading}

\* str.lower() on the reason strings that occur
Lower(reason) == IF reason = "Reloading" THEN "reloading" ELSE reason

\* _extract_response_reason
ExtractResponseReason(resp) ==
    IF resp.type = "mcp" THEN
        IF resp.reason # "None" THEN Lower(resp.reason)
        ELSE IF resp.text_reload THEN "reloading" ELSE "None"
    ELSE IF resp.type = "dict" THEN
        IF resp.state = "reloading" THEN "reloading"
        ELSE IF resp.reason # "None" THEN Lower(resp.reason)
        ELSE IF resp.text_reload THEN "reloading" ELSE "None"
    ELSE "None"

\* _is_reloading_response
IsReloadingResponse(resp) == ExtractResponseReason(resp) = "reloading"

\* max_wait_s = max(0.0, min(max_wait_s, 30.0)), in ms
ClampMaxWait(raw) == Max(0, Min(raw, MaxWaitCeilMs))

\* delay_ms: retry_after_ms of a dict response (top level, else data), else retry_ms
DelayMs(resp, retry_ms) ==
    IF resp.type = "dict" THEN
        IF resp.retry_after # None THEN resp.retry_after[1]
        ELSE IF resp.data_retry_after # None THEN resp.data_retry_after[1]
        ELSE retry_ms
    ELSE retry_ms

\* sleep_ms = max(50, min(int(delay_ms), 250))
SleepMs(delay_ms) == Max(SleepFloorMs, Min(delay_ms, SleepCeilMs))

\* the structured busy response of lines 820-828
BusyResponse(retry_ms) ==
    Resp("mcp", "None", "reloading", TRUE, None,
         Some(Min(SleepCeilMs, Max(SleepFloorMs, retry_ms))), "retry")

BudgetExhaustedNever(elapsed, max_wait) == FALSE

\* elapsed >= max_wait_s
BudgetExhausted(elapsed, max_wait) == elapsed >= max_wait

\* while _is_reloading_response(response) and retries < max_retries
LoopCondition == IsReloadingResponse(response) /\ retries < retry_cfg.max_retries

RetryInit ==
    /\ retry_cfg \in [max_retries : 0..MaxRetriesArg,
                      retry_ms : {10, 400},
                      max_wait_ms : {ClampMaxWait(raw) : raw \in {-1000, 0, 120, 40000}},
                      reloads : 0..MaxReloads,
                      final : {"success", "raise"}]
    /\ retry_pc = "call"
    /\ now = 0
    /\ wait_started = None
    /\ retries = 0
    /\ response = NoResponse
    /\ reloads_seen = 0
    /\ last_pause = 0
    /\ retry_ret = None

\* conn.send_command(command_type, params) answered with a reloading signal
PeerReloading(next_pc, pause) ==
    /\ reloads_seen < retry_cfg.reloads
    /\ \E r \in ReloadingResponses, d \in {0, MaxSendMs} :
         /\ response' = r
         /\ now' = now + d
         /\ last_pause' = pause + d
    /\ reloads_seen' = reloads_seen + 1
    /\ retry_pc' = next_pc

\* conn.send_command(command_type, params) answered with the peer's final answer
PeerFinal(pause) ==
    /\ reloads_seen = retry_cfg.reloads
    /\ \E d \in {0, MaxSendMs} :
         /\ now' = now + d
         /\ last_pause' = pause + d
    /\ IF retry_cfg.final = "success"
       THEN response' = SuccessResponse /\ retry_pc' = "check"
       ELSE response' = response /\ retry_pc' = "raised"
    /\ UNCHANGED reloads_seen

\* line 771: the first send
RetryCall ==
    /\ retry_pc = "call"
    /\ (PeerReloading("check", 0) \/ PeerFinal(0))
    /\ UNCHANGED <<retry_cfg, wait_started, retries, retry_ret>>
    /\ UNCHANGED notRetry

\* line 775: the loop condition is false
RetryLoopExit ==
    /\ retry_pc = "check"
    /\ ~LoopCondition
    /\ retry_pc' = "after"
    /\ UNCHANGED <<retry_cfg, now, wait_started, retries, response, reloads_seen,
                   last_pause, retry_ret>>
    /\ UNCHANGED notRetry

\* lines 776-789: the budget is zero or used up: break
RetryBreak ==
    /\ retry_pc = "check"
    /\ LoopCondition
    /\ wait_started' = IF wait_started = None THEN Some(now) ELSE wait_started
    /\ \/ retry_cfg.max_wait_ms <= 0
       \/ BudgetExhausted(now - wait_started'[1], retry_cfg.max_wait_ms)
    /\ retry_pc' = "after"
    /\ UNCHANGED <<retry_cfg, now, retries, response, reloads_seen, last_pause, retry_ret>>
    /\ UNCHANGED notRetry

\* lines 776-807: sleep, retries += 1
RetrySleep ==
    /\ retry_pc = "check"
    /\ LoopCondition
    /\ wait_started' = IF wait_started = None THEN Some(now) ELSE wait_started
    /\ retry_cfg.max_wait_ms > 0
    /\ ~BudgetExhausted(now - wait_started'[1], retry_cfg.max_wait_ms)
    /\ LET sleep_ms == SleepMs(DelayMs(response, retry_cfg.retry_ms)) IN
         /\ now' = now + sleep_ms
         /\ last_pause' = sleep_ms
    /\ retries' = retries + 1
    /\ retry_pc' = "resend"
    /\ UNCHANGED <<retry_cfg, response, reloads_seen, retry_ret>>
    /\ UNCHANGED notRetry

\* line 808: response = conn.send_command(command_type, params)
RetryResend ==
    /\ retry_pc = "resend"
    /\ (PeerReloading("check", last_pause) \/ PeerFinal(last_pause))
    /\ UNCHANGED <<retry_cfg, wait_started, retries, retry_ret>>
    /\ UNCHANGED notRetry

\* lines 811-835
RetryReturn ==
    /\ retry_pc = "after"
    /\ retry_ret' = IF wait_started # None /\ IsReloadingResponse(response)
                    THEN Some(BusyResponse(retry_cfg.retry_ms))
                    ELSE Some(response)
    /\ retry_pc' = "done"
    /\ UNCHANGED <<retry_cfg, now, wait_started, retries, response, reloads_seen, last_pause>>
    /\ UNCHANGED notRetry

RetryNext ==
    RetryCall \/ RetryLoopExit \/ RetryBreak \/ RetrySleep \/ RetryResend \/ RetryReturn

InitRetrySpec == RetryInit /\ RecvIdle /\ HubIdle /\ FastIdle /\ ResIdle /\ ScanIdle /\ ConnIdle /\ IoIdle /\ PreIdle /\ PoolIdle /\ SessIdle /\ MwIdle /\ CpIdle /\ RtIdle /\ RfIdle /\ EcsIdle

SpecRetry == InitRetrySpec /\ [][RetryNext]_vars

\* time spent between the first reloading response and now
Waited == IF wait_started = None THEN 0 ELSE now - wait_started[1]

\* C2 (as stated): against "k reloading responses, then success" the call
\* returns the success and the wait is at most the configured max wait.
C2_AsStated ==
    (retry_pc = "done" /\ retry_cfg.final = "success") =>
        /\ retry_ret = Some(SuccessResponse)
        /\ Waited <= retry_cfg.max_wait_ms

\* C2 (amended): against "k reloading responses, then success" the call returns
\* the success exactly when it has received all k reloading responses and the
\* final answer; it gives up (returning no success) only when retries reached
\* max_retries or the wait measured before a retry reached the max wait; a
\* retry starts only while that wait is below the max wait, so the total wait
\* exceeds the max wait by at most the last sleep (at most 250 ms) plus the
\* time of the last send.
C2_SuccessUnlessBudget ==
    (retry_pc = "done" /\ retry_cfg.final = "success") =>
        /\ (retry_ret = Some(SuccessResponse)) <=>
               (reloads_seen = retry_cfg.reloads /\ response = SuccessResponse)
        /\ retry_ret # Some(SuccessResponse) =>
               \/ retries >= retry_cfg.max_retries
               \/ Waited >= retry_cfg.max_wait_ms
        /\ retries <= retry_cfg.max_retries
        /\ Waited - last_pause <= retry_cfg.max_wait_ms
        /\ last_pause <= SleepCeilMs + MaxSendMs

\* C2 witness: two reloading responses were waited out and the success returned.
C2_Witness ==
    /\ retry_pc = "done"
    /\ retry_cfg.reloads = 2
    /\ retries = 2
    /\ retry_ret = Some(SuccessResponse)
    /\ Waited > 0

\* C3: whenever the call stops retrying while the last response is still a
\* reloading signal, it returns the structured busy response (hint retry,
\* reason reloading, retry_after_ms in [50, 250]), not the raw response.
C3_BusyWhenStillReloading ==
    (retry_pc = "done" /\ IsReloadingResponse(response)) =>
        /\ retry_ret = Some(BusyResponse(retry_cfg.retry_ms))
        /\ retry_ret[1].hint = "retry"
        /\ retry_ret[1].reason = "reloading"
        /\ retry_ret[1].data_retry_after[1] \in SleepFloorMs..SleepCeilMs

(***************************************************************************)
(* PluginHub: the WebSocket session hub                                    *)
(***************************************************************************)
MaxWebSockets == 2        \* WebSockets the peers may open
MaxSessions == 2          \* register messages accepted (session ids handed out)
MaxCommands == 2          \* send_command calls made

WebSockets == 1..MaxWebSockets
SessionIds == 1..MaxSessions
CommandIds == 1..MaxCommands
Results == {"r1", "r2"}

\* the project hash a peer announces on its WebSocket (one project per peer)
ProjectHashOf(w) == w

\* "read_console", "get_editor_state", "ping" against any other command
CommandTypes == {"read_console", "manage_scene"}
FAST_FAIL_COMMANDS == {"read_console", "get_editor_state", "ping"}

FutPending == [st |-> "pending"]
FutResult(v) == [st |-> "result", val |-> v]
FutDisconnected == [st |-> "exception", exc |-> "PluginDisconnectedError"]
FutSendFailed == [st |-> "exception", exc |-> "send"]
FutCancelled == [st |-> "cancelled"]

\* what a send_command call hands to its caller
Returned(v) == [kind |-> "returned", val |-> v]
RetryHint == [kind |-> "response", success |-> FALSE, hint |-> "retry"]
Raised(exc) == [kind |-> "raised", exc |-> exc]
NoOutcome == [kind |-> "none"]

\* a call that has returned or raised: its locals are gone (the future too,
\* unless the pending table still refers to it), its outcome stays
CallDone(outcome) == [pc |-> "done", outcome |-> outcome]

MapPut(m, k, v) == (k :> v) @@ m
MapDrop(m, ks) == [k \in DOMAIN m \ ks |-> m[k]]

HubInit ==
    /\ ws_state = [w \in WebSockets |-> "unconnected"]
    /\ connections = EmptyMap
    /\ registry = EmptyMap
    /\ pending = EmptyMap
    /\ fut = EmptyMap
    /\ call = EmptyMap
    /\ next_sid = 1
    /\ next_cmd = 1

FutureDoneNever(f) == FALSE

\* future.done()
FutureDone(f) == f # FutPending

\* on_connect: accept the socket and send welcome
OnConnect(w) ==
    /\ ws_state[w] = "unconnected"
    /\ ws_state' = [ws_state EXCEPT ![w] = "open"]
    /\ UNCHANGED <<connections, registry, pending, fut, call, next_sid, next_cmd>>
    /\ UNCHANGED notHub

\* _handle_register with a project hash: a fresh session id, registry.register,
\* _connections[session_id] = websocket
HandleRegister(w) ==
    /\ ws_state[w] = "open"
    /\ next_sid <= MaxSessions
    /\ connections' = MapPut(connections, next_sid, w)
    /\ registry' = MapPut(registry, next_sid, ProjectHashOf(w))
    /\ next_sid' = next_sid + 1
    /\ UNCHANGED <<ws_state, pending, fut, call, next_cmd>>
    /\ UNCHANGED notHub

\* _handle_register without project_hash: websocket.close(code=4400), ValueError
HandleRegisterNoHash(w) ==
    /\ ws_state[w] = "open"
    /\ ws_state' = [ws_state EXCEPT ![w] = "closing"]
    /\ UNCHANGED <<connections, registry, pending, fut, call, next_sid, next_cmd>>
    /\ UNCHANGED notHub

\* next((sid for sid, ws in cls._connections.items() if ws is websocket), None):
\* the dict keeps insertion order and session ids are handed out in increasing
\* order, so the first match is the smallest one.  0 stands for None.
SessionOfWebSocket(w) ==
    LET sids == {sid \in DOMAIN connections : connections[sid] = w}
    IN IF sids = {} THEN 0 ELSE CHOOSE sid \in sids : \A other \in sids : sid <= other

\* pending_ids of on_disconnect
PendingIdsOf(session_id) == {c \in DOMAIN pending : pending[c] = session_id}

\* on_disconnect
OnDisconnect(w) ==
    /\ ws_state[w] \in {"open", "closing"}
    /\ ws_state' = [ws_state EXCEPT ![w] = "closed"]
    /\ LET session_id == SessionOfWebSocket(w) IN
         IF session_id # 0
         THEN /\ connections' = MapDrop(connections, {session_id})
              /\ fut' = [c \in DOMAIN fut |->
                            IF c \in PendingIdsOf(session_id) /\ ~FutureDone(fut[c])
                            THEN FutDisconnected ELSE fut[c]]
              /\ registry' = MapDrop(registry, {session_id})
         ELSE UNCHANGED <<connections, fut, registry>>
    /\ UNCHANGED <<pending, call, next_sid, next_cmd>>
    /\ UNCHANGED notHub

\* _handle_command_result: the peer's command_result{id, result}, received on
\* some open WebSocket (the handler does not look at which); id 0 is a message
\* without id
HandleCommandResult(command_id, result) ==
    /\ \E w \in WebSockets : ws_state[w] = "open"
    /\ IF command_id # 0 /\ command_id \in DOMAIN pending /\ ~FutureDone(fut[command_id])
       THEN fut' = [fut EXCEPT ![command_id] = FutResult(result)]
       ELSE fut' = fut
    /\ UNCHANGED <<ws_state, connections, registry, pending, call, next_sid, next_cmd>>
    /\ UNCHANGED notHub

\* send_command, up to the end of _get_connection: the command id and the
\* future are created, or RuntimeError "not connected" is raised
SendCommandStart(session_id, command_type) ==
    /\ next_cmd <= MaxCommands
    /\ LET c == next_cmd IN
         /\ IF session_id \in DOMAIN connections
            THEN /\ call' = MapPut(call, c,
                        [pc |-> "register", session_id |-> session_id,
                         command_type |-> command_type,
                         websocket |-> connections[session_id], outcome |-> NoOutcome])
                 /\ fut' = MapPut(fut, c, FutPending)
            ELSE /\ call' = MapPut(call, c,
                        CallDone(Raised("not connected")))
                 /\ fut' = fut
         /\ next_cmd' = next_cmd + 1
    /\ UNCHANGED <<ws_state, connections, registry, pending, next_sid>>
    /\ UNCHANGED notHub

\* lines 181-186: cls._pending[command_id] = {future, session_id}
SendCommandRegisterPending(c) ==
    /\ c \in DOMAIN call
    /\ call[c].pc = "register"
    /\ pending' = MapPut(pending, c, call[c].session_id)
    /\ call' = [call EXCEPT ![c].pc = "send"]
    /\ UNCHANGED <<ws_state, connections, registry, fut, next_sid, next_cmd>>
    /\ UNCHANGED notHub

\* line 196: websocket.send_json succeeds; the call goes on to wait_for(future)
SendCommandSent(c) ==
    /\ c \in DOMAIN call
    /\ call[c].pc = "send"
    /\ ws_state[call[c].websocket] = "open"
    /\ call' = [call EXCEPT ![c].pc = "await"]
    /\ UNCHANGED <<ws_state, connections, registry, pending, fut, next_sid, next_cmd>>
    /\ UNCHANGED notHub

\* the finally block: cls._pending.pop(command_id, None)
PendingAfterFinallyKept(c) == pending

PendingAfterFinally(c) == MapDrop(pending, {c})

\* lines 197-201 and 215-217: send_json raises (socket closing or closed): the
\* future is failed, the exception propagates, the pending entry is popped
SendCommandSendFailed(c) ==
    /\ c \in DOMAIN call
    /\ call[c].pc = "send"
    /\ pending' = PendingAfterFinally(c)
    /\ fut' = MapDrop(fut, {c} \ DOMAIN pending')
    /\ call' = [call EXCEPT ![c] = CallDone(Raised("send"))]
    /\ UNCHANGED <<ws_state, connections, registry, next_sid, next_cmd>>
    /\ UNCHANGED notHub

\* lines 203-204 and 215-217: the future has a result: return it
SendCommandReturn(c) ==
    /\ c \in DOMAIN call
    /\ call[c].pc = "await"
    /\ fut[c].st = "result"
    /\ pending' = PendingAfterFinally(c)
    /\ fut' = MapDrop(fut, {c} \ DOMAIN pending')
    /\ call' = [call EXCEPT ![c] = CallDone(Returned(fut[c].val))]
    /\ UNCHANGED <<ws_state, connections, registry, next_sid, next_cmd>>
    /\ UNCHANGED notHub

\* lines 205-206 and 215-217: the future holds PluginDisconnectedError
SendCommandDisconnected(c) ==
    /\ c \in DOMAIN call
    /\ call[c].pc = "await"
    /\ fut[c] = FutDisconnected
    /\ pending' = PendingAfterFinally(c)
    /\ fut' = MapDrop(fut, {c} \ DOMAIN pending')
    /\ call' = [call EXCEPT ![c] = CallDone(RetryHint)]
    /\ UNCHANGED <<ws_state, connections, registry, next_sid, next_cmd>>
    /\ UNCHANGED notHub

\* what send_command does with asyncio.TimeoutError (lines 207-214)
TimeoutOutcome(command_type) ==
    IF command_type \in FAST_FAIL_COMMANDS THEN RetryHint ELSE Raised("TimeoutError")

\* lines 207-217: wait_for times out: it cancels the future
SendCommandTimeout(c) ==
    /\ c \in DOMAIN call
    /\ call[c].pc = "await"
    /\ ~FutureDone(fut[c])
    /\ pending' = PendingAfterFinally(c)
    /\ fut' = MapDrop(fut, {c} \ DOMAIN pending')
    /\ call' = [call EXCEPT ![c] = CallDone(TimeoutOutcome(call[c].command_type))]
    /\ UNCHANGED <<ws_state, connections, registry, next_sid, next_cmd>>
    /\ UNCHANGED notHub

HubNext ==
    \/ \E w \in WebSockets : OnConnect(w)
    \/ \E w \in WebSockets : HandleRegister(w)
    \/ \E w \in WebSockets : HandleRegisterNoHash(w)
    \/ \E w \in WebSockets : OnDisconnect(w)
    \/ \E c \in 0..MaxCommands, r \in Results : HandleCommandResult(c, r)
    \/ \E sid \in SessionIds, t \in CommandTypes : SendCommandStart(sid, t)
    \/ \E c \in CommandIds : SendCommandRegisterPending(c)
    \/ \E c \in CommandIds : SendCommandSent(c)
    \/ \E c \in CommandIds : SendCommandSendFailed(c)
    \/ \E c \in CommandIds : SendCommandReturn(c)
    \/ \E c \in CommandIds : SendCommandDisconnected(c)
    \/ \E c \in CommandIds : SendCommandTimeout(c)

InitHubSpec == HubInit /\ RecvIdle /\ RetryIdle /\ FastIdle /\ ResIdle /\ ScanIdle /\ ConnIdle /\ IoIdle /\ PreIdle /\ PoolIdle /\ SessIdle /\ MwIdle /\ CpIdle /\ RtIdle /\ RfIdle /\ EcsIdle

SpecHub == InitHubSpec /\ [][HubNext]_vars

\* C4: when a WebSocket disconnects, on_disconnect removes every session of
\* that WebSocket from the hub's connections and resolves, in that same step,
\* every pending command of such a session with the disconnect error; a
\* send_command that finds this error returns the failure with hint retry.
C4_DisconnectFailsPending ==
    [][/\ \A w \in WebSockets :
            (ws_state[w] # "closed" /\ ws_state'[w] = "closed") =>
                \A sid \in DOMAIN connections :
                    connections[sid] = w =>
                        /\ sid \notin DOMAIN connections'
                        /\ \A c \in PendingIdsOf(sid) :
                               fut[c] = FutPending => fut'[c] = FutDisconnected
       /\ \A c \in DOMAIN call :
            (call[c].pc = "await" /\ fut[c] = FutDisconnected /\ call'[c].pc = "done") =>
                call'[c].outcome = RetryHint
      ]_vars

\* C37: a command in the pending table whose session is no longer in the
\* hub's connections has been resolved (its future is done): none is
\* registered, still unresolved, for a session that on_disconnect removed.
C37_NoUnresolvedPendingForRemovedSession ==
    \A c \in DOMAIN pending :
        pending[c] \notin DOMAIN connections => FutureDone(fut[c])

\* C5: once a send_command call has returned or raised, its command id is not
\* in the pending table; a command_result that arrives for it afterwards
\* changes neither the pending table, nor any future, nor any call's outcome.
C5_NoPendingAfterReturn ==
    /\ [](\A c \in DOMAIN call : call[c].pc = "done" => c \notin DOMAIN pending)
    /\ [][\A c \in DOMAIN call, r \in Results :
            (call[c].pc = "done" /\ HandleCommandResult(c, r)) =>
                (pending' = pending /\ fut' = fut /\ call' = call)]_vars

\* C5 witness: one call has timed out, its peer is still connected (a late
\* command_result can arrive), and another command is still pending.
C5_Witness ==
    \E c \in DOMAIN call, d \in DOMAIN pending :
        /\ call[c].pc = "done"
        /\ call[c].outcome = Raised("TimeoutError")
        /\ d # c
        /\ call[d].pc = "await"
        /\ ws_state[call[d].websocket] = "open"

\* C6: a pending command's future is resolved at most once, and only by a
\* command_result carrying its own id or by the disconnect of the WebSocket of
\* its owning session; the caller gets the value the future was first resolved
\* with, and an outcome once delivered never changes.
C6_ResolvedAtMostOnce ==
    [][/\ \A c \in DOMAIN fut :
            /\ (fut[c] # FutPending /\ c \in DOMAIN fut') => fut'[c] = fut[c]
            /\ (fut[c] = FutPending /\ c \in DOMAIN fut' /\ fut'[c] # FutPending) =>
                   \/ \E r \in Results : fut'[c] = FutResult(r) /\ HandleCommandResult(c, r)
                   \/ /\ fut'[c] = FutDisconnected
                      /\ c \in DOMAIN pending
                      /\ pending[c] \in DOMAIN connections
                      /\ OnDisconnect(connections[pending[c]])
       /\ \A c \in DOMAIN call :
            /\ call[c].pc = "done" => call'[c] = call[c]
            /\ (call[c].pc = "await" /\ call'[c].pc = "done" /\ fut[c].st = "result") =>
                   call'[c].outcome = Returned(fut[c].val)
      ]_vars

\* C6 witness: a future already holds its result while the caller has not yet
\* woken up and the peer is still connected, so that a second command_result
\* or a disconnect can follow.
C6_Witness ==
    \E c \in DOMAIN call :
        /\ call[c].pc = "await"
        /\ fut[c].st = "result"
        /\ ws_state[call[c].websocket] = "open"

(***************************************************************************)
(* send_with_unity_instance -> PluginHub.send_command_for_instance ->      *)
(* PluginHub.send_command, one call with its clock (unit 0.1 s)            *)
(***************************************************************************)
PeerReadyAt == 25         \* when a late peer starts to answer pings, 0.1 s
ReplyDelay == 3           \* time a replying peer takes to answer, 0.1 s

COMMAND_TIMEOUT == 300    \* 30 s
FAST_FAIL_TIMEOUT == 20   \* 2.0 s
RequestedFloor == 10      \* max(1.0, ...)
RequestedCeil == 36000    \* min(..., 60.0 * 60.0)
ServerCushion == 50       \* requested_s + 5.0
ReadyWaitDefault == 60    \* UNITY_MCP_SESSION_READY_WAIT_SECONDS default "6"
ReadyWaitCeil == 300      \* min(max_wait_s, 30.0)
ProbeSleep == 1           \* asyncio.sleep(0.1)

AllCommandTypes == {"read_console", "get_editor_state", "ping", "manage_scene"}

UnityTimeoutDefault(command_type, requested) == COMMAND_TIMEOUT

\* unity_timeout_s of send_command: the timeout put into execute_command
UnityTimeout(command_type, requested) ==
    IF command_type \in FAST_FAIL_COMMANDS THEN FAST_FAIL_TIMEOUT
    ELSE IF requested = None THEN COMMAND_TIMEOUT
    ELSE Max(COMMAND_TIMEOUT, Max(RequestedFloor, Min(requested[1], RequestedCeil)))

ServerWaitAlwaysLong(command_type, requested) == COMMAND_TIMEOUT

\* server_wait_s of send_command: how long wait_for waits for the future
ServerWait(command_type, requested) ==
    IF command_type \in FAST_FAIL_COMMANDS THEN FAST_FAIL_TIMEOUT
    ELSE IF requested = None THEN COMMAND_TIMEOUT
    ELSE Max(COMMAND_TIMEOUT,
             Max(RequestedFloor, Min(requested[1], RequestedCeil)) + ServerCushion)

\* max_wait_s = max(0.0, min(max_wait_s, 30.0)) of the readiness probe
ClampReadyWait(raw) == Max(0, Min(raw, ReadyWaitCeil))

\* responses as the caller sees them: success, hint and data.reason
Envelope(success, hint, reason) == [success |-> success, hint |-> hint, reason |-> reason]

\* MCPResponse(success=False, error=..., hint="retry").model_dump() of send_command
\* and of the readiness probe
HubRetryResponse == Envelope(FALSE, "retry", "None")

\* the peer's command_result for a command it executed
PeerResult == [status |-> "success"]

ExceptionResponseNoHint(exc) == Envelope(FALSE, "None", "None")

\* send_with_unity_instance, except branch: MCPResponse(success=False,
\* error=err, hint="retry")
ExceptionResponse(exc) == Envelope(FALSE, "retry", "None")

\* normalize_unity_response: an MCPResponse-shaped dict is kept as it is, a
\* peer reply {status, result} becomes {success, ...}
NormalizeUnityResponse(raw) ==
    IF "status" \in DOMAIN raw
    THEN Envelope(raw.status = "success", "None", "None")
    ELSE raw

FastInit ==
    /\ fast_cfg \in [command_type : AllCommandTypes,
                     requested : {None, Some(5), Some(400), Some(40000)},
                     ready_wait : {ClampReadyWait(raw) : raw \in {0, 25, ReadyWaitDefault}},
                     pings : {"never", "late", "always"},
                     replies : BOOLEAN]
    /\ fast_pc = "start"
    /\ fast_t = 0
    /\ fast_deadline = 0
    /\ fast_connected = TRUE
    /\ fast_ponged = FALSE
    /\ fast_sent = FALSE
    /\ fast_unity_timeout = <<>>
    /\ fast_server_wait = <<>>
    /\ fast_ret = None

\* the peer answers a ping sent at time t
PeerAnswersPing(t) ==
    \/ fast_cfg.pings = "always"
    \/ fast_cfg.pings = "late" /\ t >= PeerReadyAt

\* the session's WebSocket disconnects (on_disconnect) while the call runs
FastPeerDisconnect ==
    /\ fast_pc \in {"start", "probe", "ping", "sleep", "send"}
    /\ fast_connected
    /\ fast_connected' = FALSE
    /\ UNCHANGED <<fast_cfg, fast_pc, fast_t, fast_deadline, fast_ponged, fast_sent, fast_ret>>
    /\ UNCHANGED <<fast_unity_timeout, fast_server_wait>>
    /\ UNCHANGED notFast

NeedsReadinessProbeNever(command_type, ready_wait) == FALSE

\* lines 487, 499: command_type in _FAST_FAIL_COMMANDS and command_type !=
\* "ping", and max_wait_s > 0
NeedsReadinessProbe(command_type, ready_wait) ==
    /\ command_type \in FAST_FAIL_COMMANDS
    /\ command_type # "ping"
    /\ ready_wait > 0

\* lines 467-500: the session is resolved at once (one session registered);
\* fast-path commands other than ping start the readiness probe
FastStart ==
    /\ fast_pc = "start"
    /\ IF NeedsReadinessProbe(fast_cfg.command_type, fast_cfg.ready_wait)
       THEN /\ fast_deadline' = fast_t + fast_cfg.ready_wait
            /\ fast_pc' = "probe"
       ELSE /\ fast_deadline' = fast_deadline
            /\ fast_pc' = "send"
    /\ UNCHANGED <<fast_cfg, fast_t, fast_connected, fast_ponged, fast_sent, fast_ret>>
    /\ UNCHANGED <<fast_unity_timeout, fast_server_wait>>
    /\ UNCHANGED notFast

\* line 501: while time.monotonic() < deadline
FastProbeAgain ==
    /\ fast_pc = "probe"
    /\ fast_t < fast_deadline
    /\ fast_pc' = "ping"
    /\ UNCHANGED <<fast_cfg, fast_t, fast_deadline, fast_connected, fast_ponged, fast_sent,
                   fast_ret>>
    /\ UNCHANGED <<fast_unity_timeout, fast_server_wait>>
    /\ UNCHANGED notFast

\* lines 514-520: the window is over: retry hint, the command is not sent
FastProbeExhausted ==
    /\ fast_pc = "probe"
    /\ ~(fast_t < fast_deadline)
    /\ fast_ret' = Some(NormalizeUnityResponse(HubRetryResponse))
    /\ fast_pc' = "done"
    /\ UNCHANGED <<fast_cfg, fast_t, fast_deadline, fast_connected, fast_ponged, fast_sent>>
    /\ UNCHANGED <<fast_unity_timeout, fast_server_wait>>
    /\ UNCHANGED notFast

\* lines 503-512: the probe ping is answered with pong: break
FastProbePong ==
    /\ fast_pc = "ping"
    /\ fast_connected
    /\ PeerAnswersPing(fast_t)
    /\ fast_t' = fast_t + ReplyDelay
    /\ fast_ponged' = TRUE
    /\ fast_pc' = "send"
    /\ UNCHANGED <<fast_cfg, fast_deadline, fast_connected, fast_sent, fast_ret>>
    /\ UNCHANGED <<fast_unity_timeout, fast_server_wait>>
    /\ UNCHANGED notFast

\* lines 503-513: the probe ping times out after the fast-fail timeout
\* (send_command returns the retry hint, which is no pong)
FastProbeTimeout ==
    /\ fast_pc = "ping"
    /\ fast_connected
    /\ ~PeerAnswersPing(fast_t)
    /\ fast_t' = fast_t + ServerWait("ping", None)
    /\ fast_pc' = "sleep"
    /\ UNCHANGED <<fast_cfg, fast_deadline, fast_connected, fast_ponged, fast_sent, fast_ret>>
    /\ UNCHANGED <<fast_unity_timeout, fast_server_wait>>
    /\ UNCHANGED notFast

\* lines 503-513: the WebSocket disconnects while the probe ping is awaited:
\* send_command returns the retry hint, which is no pong
FastProbeDisconnected ==
    /\ fast_pc = "ping"
    /\ fast_connected
    /\ fast_connected' = FALSE
    /\ fast_t' = fast_t + ReplyDelay
    /\ fast_pc' = "sleep"
    /\ UNCHANGED <<fast_cfg, fast_deadline, fast_ponged, fast_sent, fast_ret>>
    /\ UNCHANGED <<fast_unity_timeout, fast_server_wait>>
    /\ UNCHANGED notFast

\* lines 503-505: the probe ping raises (session not connected): probe = None
FastProbeRaises ==
    /\ fast_pc = "ping"
    /\ ~fast_connected
    /\ fast_pc' = "sleep"
    /\ UNCHANGED <<fast_cfg, fast_t, fast_deadline, fast_connected, fast_ponged, fast_sent,
                   fast_ret>>
    /\ UNCHANGED <<fast_unity_timeout, fast_server_wait>>
    /\ UNCHANGED notFast

\* line 513: await asyncio.sleep(0.1)
FastProbeSleep ==
    /\ fast_pc = "sleep"
    /\ fast_t' = fast_t + ProbeSleep
    /\ fast_pc' = "probe"
    /\ UNCHANGED <<fast_cfg, fast_deadline, fast_connected, fast_ponged, fast_sent, fast_ret>>
    /\ UNCHANGED <<fast_unity_timeout, fast_server_wait>>
    /\ UNCHANGED notFast

\* line 522, send_command answered by the peer: the result is normalized
FastSendResult ==
    /\ fast_pc = "send"
    /\ fast_connected
    /\ fast_cfg.replies
    /\ fast_t' = fast_t + ReplyDelay
    /\ fast_sent' = TRUE
    /\ fast_unity_timeout' = Some(UnityTimeout(fast_cfg.command_type, fast_cfg.requested))
    /\ fast_server_wait' = Some(ServerWait(fast_cfg.command_type, fast_cfg.requested))
    /\ fast_ret' = Some(NormalizeUnityResponse(PeerResult))
    /\ fast_pc' = "done"
    /\ UNCHANGED <<fast_cfg, fast_deadline, fast_connected, fast_ponged>>
    /\ UNCHANGED notFast

\* what the caller of send_with_unity_instance gets when wait_for times out:
\* the retry hint of send_command for a fast-path command, else the
\* TimeoutError caught by send_with_unity_instance
TimeoutResponse(command_type) ==
    IF TimeoutOutcome(command_type) = RetryHint
    THEN NormalizeUnityResponse(HubRetryResponse)
    ELSE NormalizeUnityResponse(ExceptionResponse("TimeoutError"))

\* line 522, send_command not answered: wait_for times out after server_wait_s
FastSendTimeout ==
    /\ fast_pc = "send"
    /\ fast_connected
    /\ ~fast_cfg.replies
    /\ fast_t' = fast_t + ServerWait(fast_cfg.command_type, fast_cfg.requested)
    /\ fast_sent' = TRUE
    /\ fast_unity_timeout' = Some(UnityTimeout(fast_cfg.command_type, fast_cfg.requested))
    /\ fast_server_wait' = Some(ServerWait(fast_cfg.command_type, fast_cfg.requested))
    /\ fast_ret' = Some(TimeoutResponse(fast_cfg.command_type))
    /\ fast_pc' = "done"
    /\ UNCHANGED <<fast_cfg, fast_deadline, fast_connected, fast_ponged>>
    /\ UNCHANGED notFast

\* line 522, the WebSocket disconnects while the command is awaited:
\* send_command returns the retry hint (PluginDisconnectedError)
FastSendDisconnected ==
    /\ fast_pc = "send"
    /\ fast_connected
    /\ fast_connected' = FALSE
    /\ fast_t' = fast_t + ReplyDelay
    /\ fast_sent' = TRUE
    /\ fast_unity_timeout' = Some(UnityTimeout(fast_cfg.command_type, fast_cfg.requested))
    /\ fast_server_wait' = Some(ServerWait(fast_cfg.command_type, fast_cfg.requested))
    /\ fast_ret' = Some(NormalizeUnityResponse(HubRetryResponse))
    /\ fast_pc' = "done"
    /\ UNCHANGED <<fast_cfg, fast_deadline, fast_ponged>>
    /\ UNCHANGED notFast

\* line 522, send_command raises RuntimeError (session not connected), caught
\* by send_with_unity_instance
FastSendRaises ==
    /\ fast_pc = "send"
    /\ ~fast_connected
    /\ fast_ret' = Some(NormalizeUnityResponse(ExceptionResponse("RuntimeError")))
    /\ fast_pc' = "done"
    /\ UNCHANGED <<fast_cfg, fast_t, fast_deadline, fast_connected, fast_ponged, fast_sent>>
    /\ UNCHANGED <<fast_unity_timeout, fast_server_wait>>
    /\ UNCHANGED notFast

FastNext ==
    \/ FastPeerDisconnect \/ FastStart \/ FastProbeAgain \/ FastProbeExhausted
    \/ FastProbePong \/ FastProbeTimeout \/ FastProbeRaises \/ FastProbeSleep
    \/ FastSendResult \/ FastSendTimeout \/ FastSendRaises
    \/ FastProbeDisconnected \/ FastSendDisconnected

InitFastSpec == FastInit /\ RecvIdle /\ RetryIdle /\ HubIdle /\ ResIdle /\ ScanIdle /\ ConnIdle /\ IoIdle /\ PreIdle /\ PoolIdle /\ SessIdle /\ MwIdle /\ CpIdle /\ RtIdle /\ RfIdle /\ EcsIdle

SpecFast == InitFastSpec /\ [][FastNext]_vars

\* the peer stays connected and never replies to anything
SilentPeer == fast_connected /\ fast_cfg.pings = "never" /\ ~fast_cfg.replies

IsFastPath == fast_cfg.command_type \in {"read_console", "get_editor_state", "ping"}

\* C7 (as stated): a connected peer that never replies to a fast-path command
\* yields a response with hint retry within the 2 s fast-fail timeout.
C7_AsStated ==
    (fast_pc = "done" /\ SilentPeer /\ IsFastPath) =>
        /\ fast_ret[1].hint = "retry"
        /\ fast_t <= 20

\* C7 (amended): against a connected peer that never replies, a fast-path
\* command ends in a response with hint retry; for ping (and for any fast-path
\* command when the readiness window is 0) after exactly the fast-fail
\* timeout; for read_console and get_editor_state after the readiness probe
\* has used up its window, that is not before the window is over and at most
\* one fast-fail timeout plus one 0.1 s sleep after it, without the command
\* itself being sent.
C7_RetryAfterProbeWindow ==
    (fast_pc = "done" /\ SilentPeer /\ IsFastPath) =>
        /\ fast_ret[1].hint = "retry"
        /\ fast_ret[1].success = FALSE
        /\ (fast_cfg.command_type = "ping" \/ fast_cfg.ready_wait = 0) =>
               (fast_t = 20 /\ fast_sent)
        /\ (fast_cfg.command_type # "ping" /\ fast_cfg.ready_wait > 0) =>
               /\ ~fast_sent
               /\ fast_t >= fast_cfg.ready_wait
               /\ fast_t <= fast_cfg.ready_wait + 20 + 1

\* C7 witness: read_console against a silent peer with the default 6 s window
\* has ended, later than the fast-fail timeout.
C7_Witness ==
    /\ fast_pc = "done"
    /\ SilentPeer
    /\ fast_cfg.command_type = "read_console"
    /\ fast_cfg.ready_wait = 60
    /\ fast_t > 20

\* C8: on the WebSocket transport a command outside the fast-path set that
\* times out reaches the caller of send_with_unity_instance as a hard
\* failure, without hint retry.
C8_LongTimeoutIsHardFailure ==
    (fast_pc = "done" /\ fast_connected /\ ~IsFastPath /\ ~fast_cfg.replies) =>
        /\ fast_ret[1].success = FALSE
        /\ fast_ret[1].hint # "retry"

(***************************************************************************)
(* UnityConnectionPool._resolve_instance_id                                *)
(* Strings are sequences of characters, so that strip, startswith, split   *)
(* and int are computed as Python computes them.                           *)
(***************************************************************************)
MaxInstances == 3         \* instances in one discovery result

Blank == " "
At == "@"
DigitChars == <<"0", "1", "2", "3", "4", "5", "6", "7", "8", "9">>

\* project names are directory names; hashes are the fixed-length digests the
\* peer puts into the status file name
Names == {<<"A">>, <<"B">>}
Hashes == {<<"x", "x">>, <<"x", "7">>, <<"7", "x">>, <<"7", "7">>}
Ports == <<7, 8, 9, 10>>
Heartbeats == {None, Some(1), Some(2)}

\* s[:-1]
AllButLast(s) == SubSeq(s, 1, Len(s) - 1)

\* str.startswith
StartsWith(s, prefix) ==
    /\ Len(prefix) <= Len(s)
    /\ SubSeq(s, 1, Len(prefix)) = prefix

RECURSIVE LStrip(_)
LStrip(s) == IF s # <<>> /\ Head(s) = Blank THEN LStrip(Tail(s)) ELSE s

RECURSIVE RStrip(_)
RStrip(s) == IF s # <<>> /\ s[Len(s)] = Blank THEN RStrip(AllButLast(s)) ELSE s

\* str.strip
Strip(s) == RStrip(LStrip(s))

\* "@" in identifier
ContainsAt(s) == \E i \in 1..Len(s) : s[i] = At

\* identifier.split("@", 1)
SplitAt(s) ==
    LET i == CHOOSE k \in 1..Len(s) : s[k] = At /\ \A j \in 1..(k - 1) : s[j] # At
    IN  [name_part |-> SubSeq(s, 1, i - 1), hint_part |-> SubSeq(s, i + 1, Len(s))]

DigitValue(c) == CHOOSE d \in 0..9 : DigitChars[d + 1] = c

\* int(identifier) succeeds (decimal digits; the identifier is stripped already)
IsInt(s) ==
    /\ s # <<>>
    /\ \A i \in 1..Len(s) : \E d \in 1..10 : DigitChars[d] = s[i]

RECURSIVE IntOf(_)
IntOf(s) == IF s = <<>> THEN 0 ELSE IntOf(AllButLast(s)) * 10 + DigitValue(s[Len(s)])

\* str(inst.port)
RECURSIVE StrOf(_)
StrOf(n) ==
    IF n < 10 THEN <<DigitChars[n + 1]>>
    ELSE StrOf(n \div 10) \o <<DigitChars[(n % 10) + 1]>>

\* port_discovery.py: id = f"{project_name}@{hash_value}"; entries are
\* de-duplicated by port, the position in the list gives the port here
InstanceInfo(a, i) ==
    [id |-> a.name \o <<At>> \o a.hash,
     name |-> a.name,
     hash |-> a.hash,
     port |-> Ports[i],
     path |-> <<"/">> \o a.hash \o <<"/">> \o a.name,
     last_heartbeat |-> a.last_heartbeat]

\* discovery results of n instances: one status file per hash
InstanceLists(n, heartbeats) ==
    {[i \in 1..n |-> InstanceInfo(f[i], i)] :
        f \in {g \in [1..n -> [name : Names, hash : Hashes, last_heartbeat : heartbeats]] :
                  \A i, j \in 1..n : i # j => g[i].hash # g[j].hash}}

RECURSIVE Filter(_, _)
\* [inst for inst in instances if ...], keep(i) tells whether instances[i] stays
Filter(instances, keep) ==
    IF instances = <<>> THEN <<>>
    ELSE LET n == Len(instances)
             rest == Filter(AllButLast(instances), keep)
         IN  IF n \in keep THEN Append(rest, instances[n]) ELSE rest

IdsOfNone(instances) == <<>>

IdsOf(instances) == [i \in 1..Len(instances) |-> instances[i].id]

Resolved(inst) == [kind |-> "instance", inst |-> inst]
ResolveError(reason, ids) == [kind |-> "ConnectionError", reason |-> reason, ids |-> ids]

\* sorted(instances, key=heartbeat timestamp or 0.0, reverse=True)[0]: the
\* sort is stable, so of several instances with the greatest key the first
\* of the list comes first
HeartbeatKey(inst) == IF inst.last_heartbeat = None THEN 0 ELSE inst.last_heartbeat[1]

FirstOfList(instances) == instances[1]

MostRecent(instances) ==
    LET top == CHOOSE i \in 1..Len(instances) :
                   /\ \A j \in 1..Len(instances) :
                          HeartbeatKey(instances[j]) <= HeartbeatKey(instances[i])
                   /\ \A j \in 1..(i - 1) :
                          HeartbeatKey(instances[j]) < HeartbeatKey(instances[i])
    IN  instances[top]

NameMatchesFirstOnly(instances, identifier) ==
    LET all == Filter(instances, {i \in 1..Len(instances) : instances[i].name = identifier})
    IN  IF all = <<>> THEN <<>> ELSE <<all[1]>>

\* name_matches = [inst for inst in instances if inst.name == identifier]
NameMatches(instances, identifier) ==
    Filter(instances, {i \in 1..Len(instances) : instances[i].name = identifier})

HashMatchesExactOnly(instances, identifier) ==
    Filter(instances, {i \in 1..Len(instances) : instances[i].hash = identifier})

\* hash_matches = [inst for inst in instances
\*                 if inst.hash == identifier or inst.hash.startswith(identifier)]
HashMatches(instances, identifier) ==
    Filter(instances, {i \in 1..Len(instances) :
                          \/ instances[i].hash = identifier
                          \/ StartsWith(instances[i].hash, identifier)})

\* composite_matches, for an identifier that contains "@"
CompositeMatches(instances, identifier) ==
    LET parts == SplitAt(identifier)
    IN  Filter(instances, {i \in 1..Len(instances) :
                              /\ instances[i].name = parts.name_part
                              /\ \/ StartsWith(instances[i].hash, parts.hint_part)
                                 \/ StrOf(instances[i].port) = parts.hint_part})

PortMatchesNone(instances, identifier) == <<>>

PortMatches(instances, identifier) ==
    Filter(instances, {i \in 1..Len(instances) : instances[i].port = IntOf(identifier)})

PathMatches(instances, identifier) ==
    Filter(instances, {i \in 1..Len(instances) : instances[i].path = identifier})

\* lines 517-588: the steps tried in order for the stripped identifier
ResolveStripped(instances, identifier) ==
    LET exact == Filter(instances, {i \in 1..Len(instances) : instances[i].id = identifier})
        name_matches == NameMatches(instances, identifier)
        hash_matches == HashMatches(instances, identifier)
        composite_matches ==
            IF ContainsAt(identifier) THEN CompositeMatches(instances, identifier) ELSE <<>>
        port_matches ==
            IF IsInt(identifier) THEN PortMatches(instances, identifier) ELSE <<>>
        path_matches == PathMatches(instances, identifier)
    IN  IF exact # <<>> THEN Resolved(exact[1])
        ELSE IF Len(name_matches) = 1 THEN Resolved(name_matches[1])
        ELSE IF Len(name_matches) > 1
             THEN ResolveError("name matches several instances", IdsOf(name_matches))
        ELSE IF Len(hash_matches) = 1 THEN Resolved(hash_matches[1])
        ELSE IF Len(hash_matches) > 1
             THEN ResolveError("hash matches multiple instances", IdsOf(hash_matches))
        ELSE IF Len(composite_matches) = 1 THEN Resolved(composite_matches[1])
        ELSE IF Len(port_matches) = 1 THEN Resolved(port_matches[1])
        ELSE IF Len(path_matches) = 1 THEN Resolved(path_matches[1])
        ELSE ResolveError("not found", IdsOf(instances))

\* _resolve_instance_id(instance_identifier, instances)
ResolveInstanceId(instance_identifier, instances, default_instance_id) ==
    IF instances = <<>> THEN ResolveError("no instances", <<>>)
    ELSE IF ~instance_identifier.given /\ ~default_instance_id.given
         THEN Resolved(MostRecent(instances))
    ELSE IF ~instance_identifier.given
         THEN ResolveStripped(instances, Strip(default_instance_id.text))
    ELSE ResolveStripped(instances, Strip(instance_identifier.text))

NotGiven == [given |-> FALSE, text |-> <<>>]
Given(text) == [given |-> TRUE, text |-> text]

AllIds == {n \o <<At>> \o h : n \in Names, h \in Hashes}
AllPaths == {<<"/">> \o h \o <<"/">> \o n : n \in Names, h \in Hashes}
HashPrefixes == {<<>>, <<"x">>, <<"7">>}

\* identifiers a caller may pass: ids, names, hashes and their prefixes,
\* Name@hint, ports, paths, unknown ones, and some with blanks around them
IdentifierTexts ==
    Names \cup Hashes \cup HashPrefixes \cup AllIds \cup AllPaths
    \cup {n \o <<At>> \o hint : n \in Names, hint \in {<<>>, <<"x">>, <<"7">>, <<"8">>}}
    \cup {<<"8">>, <<"9">>, <<"1", "0">>, <<"0", "8">>, <<"C">>, <<"C", At, "x", "x">>}
    \cup {<<Blank>> \o t \o <<Blank>> : t \in Names \cup HashPrefixes}
    \cup {<<Blank>> \o t : t \in AllIds}

DefaultIds == {NotGiven, Given(<<"A">>), Given(<<"A", At, "x", "x">>), Given(<<"C">>)}

\* either an identifier is given (the heartbeats and the default are not
\* read then), or none is and the default id or the heartbeats decide
ResInit ==
    /\ \E n \in 0..MaxInstances :
           \/ /\ res_identifier \in {Given(t) : t \in IdentifierTexts}
              /\ res_default = NotGiven
              /\ res_instances \in InstanceLists(n, {None})
           \/ /\ res_identifier = NotGiven
              /\ res_default \in DefaultIds
              /\ res_instances \in InstanceLists(n, Heartbeats)
    /\ res_pc = "call"
    /\ res_result = [kind |-> "none"]

ResolveCall ==
    /\ res_pc = "call"
    /\ res_result' = ResolveInstanceId(res_identifier, res_instances, res_default)
    /\ res_pc' = "done"
    /\ UNCHANGED <<res_instances, res_identifier, res_default>>
    /\ UNCHANGED notRes

ResNext == ResolveCall

InitResolveSpec == ResInit /\ RecvIdle /\ RetryIdle /\ HubIdle /\ FastIdle /\ ScanIdle /\ ConnIdle /\ IoIdle /\ PreIdle /\ PoolIdle /\ SessIdle /\ MwIdle /\ CpIdle /\ RtIdle /\ RfIdle /\ EcsIdle

SpecResolve == InitResolveSpec /\ [][ResNext]_vars

InstanceIndexes == 1..Len(res_instances)

IdentifierIsNoId == \A i \in InstanceIndexes : res_instances[i].id # res_identifier.text

ListedIds == {res_result.ids[k] : k \in 1..Len(res_result.ids)}

\* C9: an identifier that is no exact id and is the name of two or more
\* instances is never resolved: the call fails with an error that lists the
\* id of every instance of that name (and no other); if it is the name of
\* exactly one instance, that instance is returned.
C9_AmbiguousNameNeverResolved ==
    (res_pc = "done" /\ res_identifier.given /\ IdentifierIsNoId) =>
        LET same == {i \in InstanceIndexes : res_instances[i].name = res_identifier.text}
        IN  /\ Cardinality(same) >= 2 =>
                   /\ res_result.kind = "ConnectionError"
                   /\ ListedIds = {res_instances[i].id : i \in same}
                   /\ Len(res_result.ids) = Cardinality(same)
            /\ \A i \in same :
                   Cardinality(same) = 1 => res_result = Resolved(res_instances[i])

\* C9 witness: three instances, two of them of the name asked for, and the
\* call has failed listing two ids.
C9_Witness ==
    /\ res_pc = "done"
    /\ res_identifier.given
    /\ Len(res_instances) = 3
    /\ Cardinality({i \in InstanceIndexes :
                       res_instances[i].name = res_identifier.text}) = 2
    /\ res_result.kind = "ConnectionError"
    /\ Len(res_result.ids) = 2

C11_DefaultThenMostRecent ==
    (res_pc = "done" /\ ~res_identifier.given /\ res_instances # <<>>) =>
        /\ res_default.given =>
               /\ \A i \in InstanceIndexes :
                      res_instances[i].id = res_default.text =>
                          res_result = Resolved(res_instances[i])
               /\ res_default.text = <<"C">> => res_result.kind = "ConnectionError"
        /\ ~res_default.given =>
               /\ res_result.kind = "instance"
               /\ \E i \in InstanceIndexes : res_instances[i] = res_result.inst
               /\ \A j \in InstanceIndexes :
                      res_instances[j].last_heartbeat # None =>
                          /\ res_result.inst.last_heartbeat # None
                          /\ res_instances[j].last_heartbeat[1]
                                 <= res_result.inst.last_heartbeat[1]

\* C11 witness: no identifier and no default; the first instance has no
\* heartbeat, a later one has the most recent one and has been returned.
C11_Witness ==
    /\ res_pc = "done"
    /\ ~res_identifier.given
    /\ ~res_default.given
    /\ Len(res_instances) = 3
    /\ res_instances[1].last_heartbeat = None
    /\ res_instances[2].last_heartbeat = Some(1)
    /\ res_instances[3].last_heartbeat = Some(2)
    /\ res_result = Resolved(res_instances[3])

\* the identifier is numeric, no instance's id or name, and the port of
\* exactly one instance
NumericPortOfOne ==
    /\ res_pc = "done"
    /\ res_identifier.given
    /\ IsInt(res_identifier.text)
    /\ IdentifierIsNoId
    /\ \A i \in InstanceIndexes : res_instances[i].name # res_identifier.text
    /\ Cardinality({i \in InstanceIndexes :
                       res_instances[i].port = IntOf(res_identifier.text)}) = 1

HashStartsWithIdentifier ==
    {i \in InstanceIndexes : StartsWith(res_instances[i].hash, res_identifier.text)}

\* C12 (as stated): a numeric identifier that is the port of exactly one
\* instance and no instance's id or name resolves to that instance, whatever
\* the hashes of the instances are.
C12_AsStated ==
    NumericPortOfOne =>
        \A i \in InstanceIndexes :
            res_instances[i].port = IntOf(res_identifier.text) =>
                res_result = Resolved(res_instances[i])

\* C12 (amended): such an identifier resolves to the instance of that port
\* when no instance's hash starts with it; the hash step comes before the
\* port step, so when exactly one instance's hash starts with the identifier
\* that instance is returned, and when several do the call fails.
C12_PortAfterHash ==
    NumericPortOfOne =>
        /\ HashStartsWithIdentifier = {} =>
               \A i \in InstanceIndexes :
                   res_instances[i].port = IntOf(res_identifier.text) =>
                       res_result = Resolved(res_instances[i])
        /\ \A i \in HashStartsWithIdentifier :
               Cardinality(HashStartsWithIdentifier) = 1 =>
                   res_result = Resolved(res_instances[i])
        /\ Cardinality(HashStartsWithIdentifier) > 1 =>
               res_result.kind = "ConnectionError"

\* C12 witness: "8" is the port of the second of several instances, no hash
\* starts with it, and the second instance has been returned.
C12_Witness ==
    /\ NumericPortOfOne
    /\ res_identifier.text = <<"8">>
    /\ Len(res_instances) >= 2
    /\ HashStartsWithIdentifier = {}
    /\ res_result = Resolved(res_instances[2])

\* the stripped identifier fits no instance by id, name, hash prefix,
\* Name@hint, port or path
MatchesNothing ==
    LET identifier == Strip(res_identifier.text)
    IN  \A i \in InstanceIndexes :
            LET inst == res_instances[i]
            IN  /\ inst.id # identifier
                /\ inst.name # identifier
                /\ ~StartsWith(inst.hash, identifier)
                /\ \A k \in 1..Len(identifier) :
                       identifier[k] = At =>
                           ~ /\ inst.name = SubSeq(identifier, 1, k - 1)
                             /\ \/ StartsWith(inst.hash,
                                              SubSeq(identifier, k + 1, Len(identifier)))
                                \/ StrOf(inst.port)
                                       = SubSeq(identifier, k + 1, Len(identifier))
                /\ ~(IsInt(identifier) /\ inst.port = IntOf(identifier))
                /\ inst.path # identifier

\* C13: an identifier that fits no instance by id, name, hash prefix,
\* Name@hint, port or path fails with the not-found error, which lists the id
\* of every instance given, in their order; and an instance that is returned
\* is always one of the list given.
C13_NotFoundListsAll ==
    (res_pc = "done" /\ res_instances # <<>>) =>
        /\ (res_identifier.given /\ MatchesNothing) =>
               /\ res_result.kind = "ConnectionError"
               /\ res_result.reason = "not found"
               /\ res_result.ids = [i \in InstanceIndexes |-> res_instances[i].id]
        /\ res_result.kind = "instance" =>
               \E i \in InstanceIndexes : res_instances[i] = res_result.inst

\* C13 witness: an unknown identifier against three instances has failed
\* with three ids listed.
C13_Witness ==
    /\ res_pc = "done"
    /\ res_identifier = Given(<<"C", At, "x", "x">>)
    /\ Len(res_instances) = 3
    /\ MatchesNothing
    /\ res_result.kind = "ConnectionError"
    /\ Len(res_result.ids) = 3

(***************************************************************************)
(* PortDiscovery.discover_all_unity_instances                              *)
(* A datetime is [t, aware]: the instant and whether it carries a          *)
(* timezone. Ordering an aware against a naive datetime raises TypeError.  *)
(***************************************************************************)
MaxStatusFiles == 2       \* status files in the registry directory
ScanNow == 100            \* datetime.now() during the scan

FreshAge == 60            \* age_s < 60

\* ports on which a Unity listener answers the probe (_try_probe_unity_mcp)
RespondingPorts == {7, 8}
ReportedPorts == {7, 8, 9}

Aware(t) == [t |-> t, aware |-> TRUE]
Naive(t) == [t |-> t, aware |-> FALSE]

\* last_heartbeat of the file (parsed by fromisoformat) and its mtime
\* (fromtimestamp, naive): without heartbeat and 60 s old, without heartbeat
\* and fresh, heartbeat with timezone 59 s old, heartbeat with timezone and
\* stale, heartbeat without timezone
FileTimes ==
    {[heartbeat |-> None, mtime |-> Naive(40)],
     [heartbeat |-> None, mtime |-> Naive(70)],
     [heartbeat |-> Some(Aware(41)), mtime |-> Naive(90)],
     [heartbeat |-> Some(Aware(0)), mtime |-> Naive(90)],
     [heartbeat |-> Some(Naive(80)), mtime |-> Naive(90)]}

HashOfFile == <<<<"x", "x">>, <<"x", "7">>, <<"7", "x">>, <<"7", "7">>>>

\* what a status file of the i-th name holds: malformed JSON, or the fields
StatusFileContents(i) ==
    {[hash |-> HashOfFile[i], valid |-> FALSE]}
    \cup {[hash |-> HashOfFile[i], valid |-> TRUE, name |-> n, port |-> p,
           reloading |-> r, heartbeat |-> ft.heartbeat, mtime |-> ft.mtime] :
             n \in Names, p \in ReportedPorts, r \in BOOLEAN, ft \in FileTimes}

\* freshness = last_heartbeat or file_mtime
Freshness(f) == IF f.heartbeat = None THEN f.mtime ELSE f.heartbeat[1]

\* (now - freshness).total_seconds(), now taken with or without timezone as
\* the freshness has it
AgeOf(f) == ScanNow - Freshness(f).t

IsAlive(f) == f.port \in RespondingPorts

KeptAlways(f) == TRUE

\* lines 272-290: the file is kept when the probe succeeds, or when it reports
\* reloading and is fresh
IsKept(f) == IsAlive(f) \/ (f.reloading /\ AgeOf(f) < FreshAge)

DedupKeyByName(f) == f.name

\* the key of instances_by_port
DedupKey(f) == f.port

\* lines 303-313: UnityInstanceInfo(...)
ScanInstance(f) ==
    [id |-> f.name \o <<At>> \o f.hash,
     name |-> f.name,
     hash |-> f.hash,
     port |-> f.port,
     path |-> <<"/">> \o f.hash \o <<"/">> \o f.name,
     status |-> IF f.reloading THEN "reloading" ELSE "running",
     last_heartbeat |-> f.heartbeat]

\* a < b, a >= b ... on datetimes raises TypeError
Comparable(a, b) == a.aware = b.aware

\* index of the entry stored under the key of f, 0 when there is none
ExistingIndex(f) ==
    IF \E k \in 1..Len(scan_by_port) : scan_by_port[k].key = DedupKey(f)
    THEN CHOOSE k \in 1..Len(scan_by_port) : scan_by_port[k].key = DedupKey(f)
    ELSE 0

RECURSIVE SortedByFreshness(_)
\* sorted(values, key=freshness, reverse=True): stable, entries of equal
\* freshness keep their order
SortedByFreshness(entries) ==
    IF entries = <<>> THEN <<>>
    ELSE LET last == entries[Len(entries)]
             before == SortedByFreshness(AllButLast(entries))
             ahead == {k \in 1..Len(before) : before[k].freshness.t >= last.freshness.t}
         IN  [k \in 1..Len(entries) |->
                 IF k <= Cardinality(ahead) THEN before[k]
                 ELSE IF k = Cardinality(ahead) + 1 THEN last
                 ELSE before[k - 1]]

RECURSIVE StatusFileLists(_)
\* the registry directory with n status files, each under its own hash
StatusFileLists(n) ==
    IF n = 0 THEN {<<>>}
    ELSE {Append(fs, f) : fs \in StatusFileLists(n - 1), f \in StatusFileContents(n)}

ScanInit ==
    /\ \E n \in 0..MaxStatusFiles : scan_files \in StatusFileLists(n)
    /\ scan_next = 1
    /\ scan_by_port = <<>>
    /\ scan_pc = "loop"
    /\ scan_result = [kind |-> "none"]

ScanFile == scan_files[scan_next]

InLoop == scan_pc = "loop" /\ scan_next <= Len(scan_files)

ScanStep ==
    /\ scan_next' = scan_next + 1
    /\ UNCHANGED <<scan_files, scan_pc, scan_result>>
    /\ UNCHANGED notScan

\* lines 246-247, 319-322: json.load fails, the file is logged and skipped
ScanSkipMalformed ==
    /\ InLoop
    /\ ~ScanFile.valid
    /\ scan_by_port' = scan_by_port
    /\ ScanStep

\* lines 275-290: neither alive nor freshly reloading: dropped
ScanDrop ==
    /\ InLoop
    /\ ScanFile.valid
    /\ ~IsKept(ScanFile)
    /\ scan_by_port' = scan_by_port
    /\ ScanStep

\* lines 292-300: an entry for the port exists and is at least as fresh
ScanSuppressed ==
    /\ InLoop
    /\ ScanFile.valid
    /\ IsKept(ScanFile)
    /\ ExistingIndex(ScanFile) # 0
    /\ Comparable(scan_by_port[ExistingIndex(ScanFile)].freshness, Freshness(ScanFile))
    /\ scan_by_port[ExistingIndex(ScanFile)].freshness.t >= Freshness(ScanFile).t
    /\ scan_by_port' = scan_by_port
    /\ ScanStep

\* line 297: existing_time >= freshness raises TypeError for an aware and a
\* naive datetime; the except of lines 319-322 skips the file
ScanCompareRaises ==
    /\ InLoop
    /\ ScanFile.valid
    /\ IsKept(ScanFile)
    /\ ExistingIndex(ScanFile) # 0
    /\ ~Comparable(scan_by_port[ExistingIndex(ScanFile)].freshness, Freshness(ScanFile))
    /\ scan_by_port' = scan_by_port
    /\ ScanStep

\* lines 302-317: the instance is stored under its port, in the place of an
\* older entry when there is one
ScanStore ==
    /\ InLoop
    /\ ScanFile.valid
    /\ IsKept(ScanFile)
    /\ LET k == ExistingIndex(ScanFile)
           entry == [key |-> DedupKey(ScanFile), inst |-> ScanInstance(ScanFile),
                     freshness |-> Freshness(ScanFile)]
       IN  IF k = 0 THEN scan_by_port' = Append(scan_by_port, entry)
           ELSE /\ Comparable(scan_by_port[k].freshness, Freshness(ScanFile))
                /\ scan_by_port[k].freshness.t < Freshness(ScanFile).t
                /\ scan_by_port' = [scan_by_port EXCEPT ![k] = entry]
    /\ ScanStep

AllComparable ==
    \A j, k \in 1..Len(scan_by_port) :
        Comparable(scan_by_port[j].freshness, scan_by_port[k].freshness)

\* lines 324-329: the entries are sorted by freshness and returned
ScanReturn ==
    /\ scan_pc = "loop"
    /\ scan_next > Len(scan_files)
    /\ AllComparable
    /\ scan_result' =
           [kind |-> "list",
            instances |-> [k \in 1..Len(scan_by_port) |->
                              SortedByFreshness(scan_by_port)[k].inst]]
    /\ scan_pc' = "done"
    /\ UNCHANGED <<scan_files, scan_next, scan_by_port>>
    /\ UNCHANGED notScan

\* lines 324-325: sorted() compares an aware with a naive freshness: the
\* TypeError leaves the function
ScanSortRaises ==
    /\ scan_pc = "loop"
    /\ scan_next > Len(scan_files)
    /\ ~AllComparable
    /\ scan_result' = [kind |-> "raised", exc |-> "TypeError"]
    /\ scan_pc' = "done"
    /\ UNCHANGED <<scan_files, scan_next, scan_by_port>>
    /\ UNCHANGED notScan

ScanNext ==
    \/ ScanSkipMalformed \/ ScanDrop \/ ScanSuppressed \/ ScanCompareRaises
    \/ ScanStore \/ ScanReturn \/ ScanSortRaises

InitScanSpec == ScanInit /\ RecvIdle /\ RetryIdle /\ HubIdle /\ FastIdle /\ ResIdle /\ ConnIdle /\ IoIdle /\ PreIdle /\ PoolIdle /\ SessIdle /\ MwIdle /\ CpIdle /\ RtIdle /\ RfIdle /\ EcsIdle

SpecScan == InitScanSpec /\ [][ScanNext]_vars

ScanListed == scan_pc = "done" /\ scan_result.kind = "list"

FileIndexes == 1..Len(scan_files)

\* the instance of file i is in the list returned
InScanResult(i) ==
    \E k \in 1..Len(scan_result.instances) :
        /\ scan_result.instances[k].hash = scan_files[i].hash
        /\ scan_result.instances[k].name = scan_files[i].name

\* the probe of file i succeeds, or it fails and the file reports reloading
\* and is less than 60 s old
AliveOrFreshReloading(i) ==
    \/ scan_files[i].port \in RespondingPorts
    \/ /\ scan_files[i].reloading
       /\ ScanNow - Freshness(scan_files[i]).t < FreshAge

\* no other status file reports the port of file i
PortOfItsOwn(i) ==
    \A j \in FileIndexes \ {i} :
        scan_files[j].valid => scan_files[j].port # scan_files[i].port

C15_AsStated ==
    ScanListed =>
        \A i \in FileIndexes :
            scan_files[i].valid => (InScanResult(i) <=> AliveOrFreshReloading(i))

\* C15 (amended): in a list the scan returns, an instance is present only if
\* its probe succeeds or it is freshly reloading, and it is present whenever
\* that holds and no other status file reports the same port; a present
\* instance has status 'reloading' exactly when its file reports reloading,
\* else 'running'.
C15_KeptUnlessSuppressed ==
    ScanListed =>
        \A i \in FileIndexes :
            scan_files[i].valid =>
                /\ InScanResult(i) => AliveOrFreshReloading(i)
                /\ (AliveOrFreshReloading(i) /\ PortOfItsOwn(i)) => InScanResult(i)
                /\ \A k \in 1..Len(scan_result.instances) :
                       scan_result.instances[k].hash = scan_files[i].hash =>
                           scan_result.instances[k].status
                               = (IF scan_files[i].reloading THEN "reloading" ELSE "running")

\* C15 witness: a file on a silent port, reloading and 59 s old, is in the
\* list with status 'reloading', and a second file on that port was dropped.
C15_Witness ==
    /\ ScanListed
    /\ Len(scan_files) = 2
    /\ scan_files[1].valid /\ scan_files[2].valid
    /\ scan_files[1].port = 9 /\ scan_files[2].port = 9
    /\ scan_files[1].reloading /\ Freshness(scan_files[1]) = Aware(41)
    /\ ~scan_files[2].reloading
    /\ Len(scan_result.instances) = 1
    /\ scan_result.instances[1].hash = scan_files[1].hash
    /\ scan_result.instances[1].status = "reloading"

\* C16: the scan never raises: for every set of status files it ends with a
\* list.
C16_ScanNeverRaises == scan_pc = "done" => scan_result.kind = "list"

\* C17: when several status files report one port, the list has exactly one
\* instance for that port, the one of the most recent freshness among those
\* that are alive or freshly reloading, whatever the order of the files.
C17_FreshestWinsPerPort ==
    ScanListed =>
        \A p \in ReportedPorts :
            LET cands == {i \in FileIndexes :
                             /\ scan_files[i].valid
                             /\ scan_files[i].port = p
                             /\ AliveOrFreshReloading(i)}
                found == {k \in 1..Len(scan_result.instances) :
                             scan_result.instances[k].port = p}
            IN  cands # {} =>
                    /\ Cardinality(found) = 1
                    /\ \E i \in cands :
                           /\ InScanResult(i)
                           /\ \A j \in cands :
                                  Freshness(scan_files[j]).t <= Freshness(scan_files[i]).t

(***************************************************************************)
(* UnityConnection.connect, disconnect and the attempt loop of             *)
(* UnityConnection.send_command                                            *)
(* The handshake is a sequence of characters: "F","1" stands for the       *)
(* marker FRAMING=1, "W" for other text, "NL" for the newline.             *)
(***************************************************************************)
HandshakeBufCap == 4      \* len(buf) < 512, in characters of the model
MaxChunk == 2             \* sock.recv(256), in characters of the model
MaxConfigRetries == 6     \* the greater value of config.max_retries

AttemptFloor == 5         \* attempts = max(config.max_retries, 5)

\* what a peer may send after accept; "X" is a byte above 0x7f
Handshakes ==
    {<<"W", "F", "1", "NL">>, <<"W", "NL">>, <<>>, <<"F", "1">>,
     <<"W", "NL", "F", "1">>, <<"F", "W", "1", "NL">>, <<"F", "X", "1", "NL">>,
     <<"W", "W", "W", "F", "1", "NL">>}

\* bytes(buf).decode('ascii', errors='ignore'): undecodable bytes are dropped
DecodeAsciiIgnore(bytes) == SelectSeq(bytes, LAMBDA b : b # "X")

RECURSIVE StripNewlines(_)
\* .strip() of the decoded handshake
StripNewlines(text) ==
    IF text # <<>> /\ Head(text) = "NL" THEN StripNewlines(Tail(text))
    ELSE IF text # <<>> /\ text[Len(text)] = "NL" THEN StripNewlines(AllButLast(text))
    ELSE text

HasMarkerAlways(text) == TRUE

\* 'FRAMING=1' in text
HasMarker(text) ==
    \E i \in 1..(Len(text) - 1) : text[i] = "F" /\ text[i + 1] = "1"

HandshakeText(buf) == StripNewlines(DecodeAsciiIgnore(buf))

AttemptsOneMore == Max(conn_cfg.max_retries, AttemptFloor) + 1

\* line 243: attempts = max(config.max_retries, 5)
Attempts == Max(conn_cfg.max_retries, AttemptFloor)

ConnInit ==
    /\ conn_cfg \in [require_framing : BOOLEAN, max_retries : {0, MaxConfigRetries}]
    /\ sock = "none"
    /\ os_socket_open = FALSE
    /\ use_framing = FALSE
    /\ conn_wire = <<>>
    /\ conn_buf = <<>>
    /\ conn_pc = "idle"
    /\ conn_caller = "api"
    /\ conn_ret = None
    /\ conn_attempt = 0
    /\ conn_violation = FALSE
    /\ conn_error_reply = FALSE
    /\ send_ret = [kind |-> "none"]

\* connect() is called by a user of the connection
ConnectCall ==
    /\ conn_pc = "idle"
    /\ conn_caller' = "api"
    /\ conn_pc' = "c_enter"
    /\ UNCHANGED <<conn_cfg, sock, os_socket_open, use_framing, conn_wire, conn_buf,
                   conn_ret, conn_attempt, conn_violation, conn_error_reply, send_ret>>
    /\ UNCHANGED notConn

\* lines 54-58: if self.sock: return True
ConnAlreadyConnected ==
    /\ conn_pc = "c_enter"
    /\ sock = "open"
    /\ conn_ret' = Some(TRUE)
    /\ conn_pc' = "c_ret"
    /\ UNCHANGED <<conn_cfg, sock, os_socket_open, use_framing, conn_wire, conn_buf,
                   conn_caller, conn_attempt, conn_violation, conn_error_reply, send_ret>>
    /\ UNCHANGED notConn

\* lines 65-66, 109-117: create_connection raises, self.sock is still None
ConnOpenFails ==
    /\ conn_pc = "c_enter"
    /\ sock = "none"
    /\ conn_ret' = Some(FALSE)
    /\ conn_pc' = "c_ret"
    /\ UNCHANGED <<conn_cfg, sock, os_socket_open, use_framing, conn_wire, conn_buf,
                   conn_caller, conn_attempt, conn_violation, conn_error_reply, send_ret>>
    /\ UNCHANGED notConn

\* lines 65-77: the socket is open, the peer's handshake is on its way
ConnOpen ==
    /\ conn_pc = "c_enter"
    /\ sock = "none"
    /\ sock' = "open"
    /\ os_socket_open' = TRUE
    /\ conn_wire' \in Handshakes
    /\ conn_buf' = <<>>
    /\ conn_pc' = "c_recv"
    /\ UNCHANGED <<conn_cfg, use_framing, conn_caller, conn_ret, conn_attempt,
                   conn_violation, conn_error_reply, send_ret>>
    /\ UNCHANGED notConn

\* lines 78-85: a chunk is received; the loop ends with a newline in buf
ConnRecvChunk ==
    /\ conn_pc = "c_recv"
    /\ Len(conn_buf) < HandshakeBufCap
    /\ \E n \in 1..Min(MaxChunk, Len(conn_wire)) :
           /\ conn_buf' = conn_buf \o SubSeq(conn_wire, 1, n)
           /\ conn_wire' = SubSeq(conn_wire, n + 1, Len(conn_wire))
    /\ conn_pc' = IF \E i \in 1..Len(conn_buf') : conn_buf'[i] = "NL"
                  THEN "c_decide" ELSE "c_recv"
    /\ UNCHANGED <<conn_cfg, sock, os_socket_open, use_framing, conn_caller, conn_ret,
                   conn_attempt, conn_violation, conn_error_reply, send_ret>>
    /\ UNCHANGED notConn

\* lines 78-87: the loop ends without a newline: deadline, buffer full, end
\* of stream or socket.timeout
ConnRecvStops ==
    /\ conn_pc = "c_recv"
    /\ conn_pc' = "c_decide"
    /\ UNCHANGED <<conn_cfg, sock, os_socket_open, use_framing, conn_wire, conn_buf,
                   conn_caller, conn_ret, conn_attempt, conn_violation, conn_error_reply, send_ret>>
    /\ UNCHANGED notConn

\* lines 80, 109-117: recv raises (connection reset): socket closed, handle
\* cleared, False
ConnRecvRaises ==
    /\ conn_pc = "c_recv"
    /\ sock' = "none"
    /\ os_socket_open' = FALSE
    /\ conn_ret' = Some(FALSE)
    /\ conn_pc' = "c_ret"
    /\ UNCHANGED <<conn_cfg, use_framing, conn_wire, conn_buf, conn_caller, conn_attempt,
                   conn_violation, conn_error_reply, send_ret>>
    /\ UNCHANGED notConn

\* lines 88-117: framed mode with the marker; without it the ConnectionError
\* under strict framing (socket closed, handle cleared, False), else legacy
ConnDecide ==
    /\ conn_pc = "c_decide"
    /\ IF HasMarker(HandshakeText(conn_buf))
       THEN /\ use_framing' = TRUE
            /\ conn_ret' = Some(TRUE)
            /\ UNCHANGED <<sock, os_socket_open>>
       ELSE IF conn_cfg.require_framing
       THEN /\ sock' = "none"
            /\ os_socket_open' = FALSE
            /\ conn_ret' = Some(FALSE)
            /\ UNCHANGED use_framing
       ELSE /\ use_framing' = FALSE
            /\ conn_ret' = Some(TRUE)
            /\ UNCHANGED <<sock, os_socket_open>>
    /\ conn_pc' = "c_ret"
    /\ UNCHANGED <<conn_cfg, conn_wire, conn_buf, conn_caller, conn_attempt,
                   conn_violation, conn_error_reply, send_ret>>
    /\ UNCHANGED notConn

\* connect() has returned: to the user, or into send_command (line 301)
ConnReturn ==
    /\ conn_pc = "c_ret"
    /\ conn_pc' = IF conn_caller = "api" THEN "idle"
                  ELSE IF conn_ret = Some(TRUE) THEN "s_io" ELSE "s_except"
    /\ UNCHANGED <<conn_cfg, sock, os_socket_open, use_framing, conn_wire, conn_buf,
                   conn_caller, conn_ret, conn_attempt, conn_violation, conn_error_reply, send_ret>>
    /\ UNCHANGED notConn

\* lines 119-127: disconnect()
Disconnect ==
    /\ conn_pc = "idle"
    /\ sock' = "none"
    /\ os_socket_open' = FALSE
    /\ UNCHANGED <<conn_cfg, use_framing, conn_wire, conn_buf, conn_pc, conn_caller,
                   conn_ret, conn_attempt, conn_violation, conn_error_reply, send_ret>>
    /\ UNCHANGED notConn

\* send_command is called (lines 236-299); the first attempt begins
SendCall ==
    /\ conn_pc = "idle"
    /\ conn_attempt' = 0
    /\ conn_violation' = FALSE
    /\ conn_error_reply' = FALSE
    /\ send_ret' = [kind |-> "none"]
    /\ conn_pc' = "s_attempt"
    /\ UNCHANGED <<conn_cfg, sock, os_socket_open, use_framing, conn_wire, conn_buf,
                   conn_caller, conn_ret>>
    /\ UNCHANGED notConn

\* line 302: if not self.sock and not self.connect()
SendEnsureConnected ==
    /\ conn_pc = "s_attempt"
    /\ IF sock = "none"
       THEN /\ conn_caller' = "send_command"
            /\ conn_pc' = "c_enter"
       ELSE /\ conn_pc' = "s_io"
            /\ UNCHANGED conn_caller
    /\ UNCHANGED <<conn_cfg, sock, os_socket_open, use_framing, conn_wire, conn_buf,
                   conn_ret, conn_attempt, conn_violation, conn_error_reply, send_ret>>
    /\ UNCHANGED notConn

\* lines 315-354: the reply is a JSON object whose status is not "error"
SendReturnsResult ==
    /\ conn_pc = "s_io"
    /\ send_ret' = [kind |-> "result"]
    /\ conn_pc' = "idle"
    /\ UNCHANGED <<conn_cfg, sock, os_socket_open, use_framing, conn_wire, conn_buf,
                   conn_caller, conn_ret, conn_attempt, conn_violation, conn_error_reply>>
    /\ UNCHANGED notConn

\* lines 163-165, 349: the frame length is above FRAMED_MAX (ValueError), or
\* the payload is not JSON (json.JSONDecodeError; in legacy mode the read ends
\* in a timeout or with no data)
SendProtocolViolation ==
    /\ conn_pc = "s_io"
    /\ conn_violation' = TRUE
    /\ UNCHANGED conn_error_reply
    /\ conn_pc' = "s_except"
    /\ UNCHANGED <<conn_cfg, sock, os_socket_open, use_framing, conn_wire, conn_buf,
                   conn_caller, conn_ret, conn_attempt, send_ret>>
    /\ UNCHANGED notConn

\* lines 350-353: the reply is a JSON object with status "error":
\* raise Exception(err), inside the try block
SendStatusError ==
    /\ conn_pc = "s_io"
    /\ conn_error_reply' = TRUE
    /\ conn_pc' = "s_except"
    /\ UNCHANGED <<conn_cfg, sock, os_socket_open, use_framing, conn_wire, conn_buf,
                   conn_caller, conn_ret, conn_attempt, conn_violation, send_ret>>
    /\ UNCHANGED notConn

\* lines 322-347: sendall or the read raises (reset, timeout, closed socket)
SendOtherFailure ==
    /\ conn_pc = "s_io"
    /\ conn_pc' = "s_except"
    /\ UNCHANGED <<conn_cfg, sock, os_socket_open, use_framing, conn_wire, conn_buf,
                   conn_caller, conn_ret, conn_attempt, conn_violation, conn_error_reply, send_ret>>
    /\ UNCHANGED notConn

\* lines 355-424: except Exception: close, self.sock = None, then the next
\* attempt while attempt < attempts, else the exception is raised again
SendExcept ==
    /\ conn_pc = "s_except"
    /\ sock' = "none"
    /\ os_socket_open' = FALSE
    /\ IF conn_attempt < Attempts
       THEN /\ conn_attempt' = conn_attempt + 1
            /\ conn_pc' = "s_attempt"
            /\ UNCHANGED send_ret
       ELSE /\ send_ret' = [kind |-> "raised"]
            /\ conn_pc' = "idle"
            /\ UNCHANGED conn_attempt
    /\ UNCHANGED <<conn_cfg, use_framing, conn_wire, conn_buf, conn_caller, conn_ret,
                   conn_violation, conn_error_reply>>
    /\ UNCHANGED notConn

ConnNext ==
    \/ ConnectCall
    \/ ConnAlreadyConnected
    \/ ConnOpenFails
    \/ ConnOpen
    \/ ConnRecvChunk
    \/ ConnRecvStops
    \/ ConnRecvRaises
    \/ ConnDecide
    \/ ConnReturn
    \/ Disconnect
    \/ SendCall
    \/ SendEnsureConnected
    \/ SendReturnsResult
    \/ SendProtocolViolation
    \/ SendStatusError
    \/ SendOtherFailure
    \/ SendExcept

InitConnSpec ==
    ConnInit /\ RecvIdle /\ RetryIdle /\ HubIdle /\ FastIdle /\ ResIdle /\ ScanIdle /\ IoIdle /\ PreIdle /\ PoolIdle /\ SessIdle /\ MwIdle /\ CpIdle /\ RtIdle /\ RfIdle /\ EcsIdle

SpecConn == InitConnSpec /\ [][ConnNext]_vars

\* the handshake bytes hold the marker
BytesHaveMarker ==
    \E i \in 1..(Len(conn_buf) - 1) : conn_buf[i] = "F" /\ conn_buf[i + 1] = "1"

\* the handshake bytes hold the marker once the bytes above 0x7f are left out
DecodedBytesHaveMarker ==
    \E i \in 1..Len(conn_buf) : \E j \in (i + 1)..Len(conn_buf) :
        /\ conn_buf[i] = "F"
        /\ conn_buf[j] = "1"
        /\ \A k \in (i + 1)..(j - 1) : conn_buf[k] = "X"

\* C18 as stated: connect() enters framed mode only if the handshake bytes
\* contain the marker FRAMING=1; under strict framing a handshake without the
\* marker makes connect() return False with the socket closed and the handle
\* cleared; legacy mode is entered only with strict framing disabled; after
\* connect() has returned the handle is set exactly when it returned True.
C18_AsStated ==
    conn_pc = "c_ret" =>
        /\ (sock = "open") <=> (conn_ret = Some(TRUE))
        /\ (conn_ret = Some(TRUE) /\ use_framing) => BytesHaveMarker
        /\ (conn_cfg.require_framing /\ ~BytesHaveMarker) =>
               (conn_ret = Some(FALSE) /\ sock = "none" /\ ~os_socket_open)
        /\ (conn_ret = Some(TRUE) /\ ~use_framing) => ~conn_cfg.require_framing

\* C18, amended: the same four statements with "the handshake contains the
\* marker" read on the handshake decoded as ASCII, undecodable bytes dropped:
\* framed mode only with the marker in the decoded handshake; under strict
\* framing no marker in it gives False, socket closed, handle cleared; legacy
\* mode only with strict framing disabled; handle set exactly on True.
C18_FramingDecidedByDecodedHandshake ==
    conn_pc = "c_ret" =>
        /\ (sock = "open") <=> (conn_ret = Some(TRUE))
        /\ (conn_ret = Some(TRUE) /\ use_framing) => DecodedBytesHaveMarker
        /\ (conn_cfg.require_framing /\ ~DecodedBytesHaveMarker) =>
               (conn_ret = Some(FALSE) /\ sock = "none" /\ ~os_socket_open)
        /\ (conn_ret = Some(TRUE) /\ ~use_framing) => ~conn_cfg.require_framing

\* C18 witness: under strict framing a complete handshake line without the
\* marker was read and connect() is about to return False.
C18_Witness ==
    /\ conn_pc = "c_ret"
    /\ conn_cfg.require_framing
    /\ conn_buf = <<"W", "NL">>
    /\ conn_ret = Some(FALSE)
    /\ sock = "none"

\* C19: when the reply to a command is a protocol violation, send_command
\* tears the connection down and the call ends in a raised error; it never
\* returns a result for that command.
C19_ViolationIsHardFailure ==
    /\ (conn_violation /\ conn_pc = "s_attempt") => (sock = "none" /\ ~os_socket_open)
    /\ conn_violation => send_ret.kind # "result"

\* C40: once the peer has answered a send_command call with a well-formed
\* reply of status error, the call sends nothing more (it neither connects
\* nor sends again, it only reports the error), and the step that reports
\* the error leaves the socket open.
C40_ErrorReplyReportedAfterOneSend ==
    /\ [](conn_error_reply => conn_pc \in {"s_except", "idle"})
    /\ [][(conn_error_reply /\ conn_pc = "s_except") =>
              (sock' = sock /\ os_socket_open' = os_socket_open)]_vars

\* C20: with heartbeat threshold N and within the heartbeat window, a reply
\* that follows up to N heartbeat frames is delivered, and the heartbeat
\* timeout is raised only when more than N heartbeats were received (on a
\* closed stream a timeout can only be the heartbeat timeout).
C20_TimeoutOnlyAboveThreshold ==
    LET i == FirstNonZero(frames) IN
    /\ (/\ recv_pc \in {"returned", "timeout", "error"}
        /\ i > 0
        /\ i - 1 <= MaxHeartbeatFrames
        /\ frames[i].len <= FRAMED_MAX
        /\ Len(EncodeFrames(SubSeq(frames, 1, i))) <= Len(EncodeFrames(frames)) - MaxCut
        /\ recv_elapsed <= HeartbeatWindow)
       => recv_pc = "returned"
    /\ (recv_pc = "timeout" /\ stream_end = "closed" /\ recv_elapsed <= HeartbeatWindow)
       => heartbeat_count > MaxHeartbeatFrames

(***************************************************************************)
(* Concurrent callers of UnityConnection.send_command on one connection    *)
(* (threads of the executor), each making its calls one after the other    *)
(***************************************************************************)
MaxCallers == 2           \* threads that use the connection
MaxCallsPerCaller == 2    \* calls each thread makes, one after the other
MaxIoAttempts == 1        \* attempts = max(config.max_retries, 5), scaled down

Callers == 1..MaxCallers

IoInit ==
    /\ io_pc = [t \in Callers |-> "idle"]
    /\ io_call = [t \in Callers |-> 0]
    /\ io_attempt = [t \in Callers |-> 0]
    /\ io_lock = 0
    /\ io_conn_lock = 0
    /\ io_sock = FALSE
    /\ io_last = [t \in Callers |-> 0]
    /\ io_ready = FALSE
    /\ io_failed = FALSE

CanAcquireAlways(lock) == TRUE

\* threading.Lock: acquire blocks while the lock is held
CanAcquire(lock) == lock = 0

\* lines 236-299: a caller issues its next command
IoCall(t) ==
    /\ io_pc[t] = "idle"
    /\ io_call[t] < MaxCallsPerCaller
    /\ io_call' = [io_call EXCEPT ![t] = @ + 1]
    /\ io_attempt' = [io_attempt EXCEPT ![t] = 0]
    /\ io_pc' = [io_pc EXCEPT ![t] = "ensure"]
    /\ UNCHANGED <<io_lock, io_conn_lock, io_sock, io_last, io_ready, io_failed>>
    /\ UNCHANGED notIo

\* lines 302, 54-55: if not self.sock and not self.connect()
IoEnsureConnected(t) ==
    /\ io_pc[t] = "ensure"
    /\ io_pc' = [io_pc EXCEPT ![t] = IF io_sock THEN "lock" ELSE "conn_lock"]
    /\ UNCHANGED <<io_call, io_attempt, io_lock, io_conn_lock, io_sock, io_last, io_ready, io_failed>>
    /\ UNCHANGED notIo

\* lines 56-66: with self._conn_lock: if self.sock: return True; else
\* create_connection sets self.sock, or raises (return False)
IoConnectOpen(t) ==
    /\ io_pc[t] = "conn_lock"
    /\ CanAcquire(io_conn_lock)
    /\ IF io_sock
       THEN /\ io_pc' = [io_pc EXCEPT ![t] = "lock"]
            /\ UNCHANGED <<io_conn_lock, io_sock, io_ready, io_failed>>
       ELSE \/ /\ io_sock' = TRUE
               /\ io_ready' = FALSE
               /\ io_failed' = FALSE
               /\ io_conn_lock' = t
               /\ io_pc' = [io_pc EXCEPT ![t] = "handshake"]
            \/ /\ io_pc' = [io_pc EXCEPT ![t] = "except"]
               /\ UNCHANGED <<io_conn_lock, io_sock, io_ready, io_failed>>
    /\ UNCHANGED <<io_call, io_attempt, io_lock, io_last>>
    /\ UNCHANGED notIo

\* lines 70-117: the handshake is accepted (return True), or connect() clears
\* self.sock and returns False
IoConnectDone(t) ==
    /\ io_pc[t] = "handshake"
    /\ io_conn_lock' = 0
    /\ \/ /\ io_pc' = [io_pc EXCEPT ![t] = "lock"]
          /\ io_ready' = io_sock
          /\ UNCHANGED io_sock
       \/ /\ io_sock' = FALSE
          /\ io_ready' = FALSE
          /\ io_pc' = [io_pc EXCEPT ![t] = "except"]
    /\ UNCHANGED <<io_call, io_attempt, io_lock, io_last, io_failed>>
    /\ UNCHANGED notIo

\* line 315: with self._io_lock
IoAcquire(t) ==
    /\ io_pc[t] = "lock"
    /\ CanAcquire(io_lock)
    /\ io_lock' = t
    /\ io_pc' = [io_pc EXCEPT ![t] = "write"]
    /\ UNCHANGED <<io_call, io_attempt, io_conn_lock, io_sock, io_last, io_ready, io_failed>>
    /\ UNCHANGED notIo

\* lines 320-325: self.sock.sendall(...) hands the command to the peer; it
\* raises when self.sock is None by now or the socket is closed, and the
\* with block is left
IoWrite(t) ==
    /\ io_pc[t] = "write"
    /\ \/ /\ io_sock
          /\ io_last' = [io_last EXCEPT ![t] = io_call[t]]
          /\ io_pc' = [io_pc EXCEPT ![t] = "read"]
          /\ UNCHANGED io_lock
       \/ /\ io_lock' = 0
          /\ io_pc' = [io_pc EXCEPT ![t] = "except"]
          /\ UNCHANGED io_last
    /\ UNCHANGED <<io_call, io_attempt, io_conn_lock, io_sock, io_ready, io_failed>>
    /\ UNCHANGED notIo

\* lines 327-354: the reply is read, the with block is left, the result is
\* returned
IoReadReturns(t) ==
    /\ io_pc[t] = "read"
    /\ io_lock' = 0
    /\ io_pc' = [io_pc EXCEPT ![t] = "idle"]
    /\ UNCHANGED <<io_call, io_attempt, io_conn_lock, io_sock, io_last, io_ready, io_failed>>
    /\ UNCHANGED notIo

\* lines 327-353: the read (recv_failed) or the parse raises, the with block
\* is left
IoReadRaises(t) ==
    /\ io_pc[t] = "read"
    /\ io_lock' = 0
    /\ io_pc' = [io_pc EXCEPT ![t] = "except"]
    /\ \E recv_failed \in BOOLEAN : io_failed' = (io_failed \/ (io_sock /\ recv_failed))
    /\ UNCHANGED <<io_call, io_attempt, io_conn_lock, io_sock, io_last, io_ready>>
    /\ UNCHANGED notIo

\* lines 355-424: the handler closes and clears self.sock (no lock is held),
\* then the next attempt, or the exception leaves the call
IoExcept(t) ==
    /\ io_pc[t] = "except"
    /\ io_sock' = FALSE
    /\ io_ready' = FALSE
    /\ io_failed' = FALSE
    /\ IF io_attempt[t] < MaxIoAttempts
       THEN /\ io_attempt' = [io_attempt EXCEPT ![t] = @ + 1]
            /\ io_pc' = [io_pc EXCEPT ![t] = "ensure"]
       ELSE /\ io_pc' = [io_pc EXCEPT ![t] = "idle"]
            /\ UNCHANGED io_attempt
    /\ UNCHANGED <<io_call, io_lock, io_conn_lock, io_last>>
    /\ UNCHANGED notIo

IoNext ==
    \E t \in Callers :
        \/ IoCall(t)
        \/ IoEnsureConnected(t)
        \/ IoConnectOpen(t)
        \/ IoConnectDone(t)
        \/ IoAcquire(t)
        \/ IoWrite(t)
        \/ IoReadReturns(t)
        \/ IoReadRaises(t)
        \/ IoExcept(t)

InitIoSpec ==
    IoInit /\ RecvIdle /\ RetryIdle /\ HubIdle /\ FastIdle /\ ResIdle /\ ScanIdle /\ ConnIdle /\ PreIdle /\ PoolIdle /\ SessIdle /\ MwIdle /\ CpIdle /\ RtIdle /\ RfIdle /\ EcsIdle

SpecIo == InitIoSpec /\ [][IoNext]_vars

\* C21: on one connection at most one caller at a time is between writing
\* its command and finishing the read of the reply, under every interleaving
\* of concurrent callers; the calls one caller makes one after the other
\* reach the peer in issue order (the number of the call a caller wrote last
\* never goes down).
C21_OneSendReceiveInFlight ==
    /\ [](\A t, u \in Callers : (io_pc[t] = "read" /\ io_pc[u] = "read") => t = u)
    /\ [][\A t \in Callers : io_last'[t] >= io_last[t]]_vars

\* C21 witness: one caller has written its second command and reads the
\* reply while another caller waits for the lock.
C21_Witness ==
    \E t, u \in Callers :
        /\ io_pc[t] = "read"
        /\ io_last[t] = 2
        /\ io_pc[u] = "lock"
        /\ io_lock = t

\* C38: no caller writes a command to a socket on which a receive has
\* failed or timed out: the socket is closed before a queued caller gets to
\* use it.
C38_NoUseAfterFailedReceive ==
    [][\A t \in Callers :
          (io_pc[t] = "write" /\ io_pc'[t] = "read") => ~io_failed]_vars

\* C39: no caller writes a command to a socket before connect() has read
\* that socket's handshake and set the framing mode for it.
C39_NoWriteBeforeHandshake ==
    [][\A t \in Callers :
          (io_pc[t] = "write" /\ io_pc'[t] = "read") => io_ready]_vars

(***************************************************************************)
(* The preflight of UnityConnection.send_command: read_status_file and the *)
(* short-circuit while the editor reloads                                  *)
(***************************************************************************)
MaxPreFiles == 2          \* status files in ~/.unity-mcp

\* a status file: unreadable JSON, or its 'reloading' and 'reason' fields
PreFileContents ==
    {[hash |-> h, valid |-> FALSE] : h \in Hashes}
    \cup {[hash |-> h, valid |-> TRUE, reloading |-> r, reason |-> w] :
              h \in Hashes, r \in BOOLEAN, w \in {"none", "reloading"}}

RECURSIVE PreFileLists(_)
\* the files in the order sorted(..., key=mtime, reverse=True) gives; a hash
\* names one file
PreFileLists(n) ==
    IF n = 0 THEN {<<>>}
    ELSE LET shorter == PreFileLists(n - 1) IN
         shorter \cup {Append(fs, f) : fs \in {l \in shorter : Len(l) = n - 1},
                                       f \in PreFileContents}

DistinctHashes(fs) == \A i, j \in 1..Len(fs) : fs[i].hash = fs[j].hash => i = j

\* self.instance_id: None, "Name@hash", "Name", "Name@"
PreInstanceIds ==
    {NotGiven} \cup {Given(<<"A", At>> \o h) : h \in Hashes}
    \cup {Given(<<"A">>), Given(<<"A", At>>)}

EndsWith(s, suffix) ==
    /\ Len(suffix) <= Len(s)
    /\ SubSeq(s, Len(s) - Len(suffix) + 1, Len(s)) = suffix

\* status_path.stem of unity-mcp-status-<hash>.json
StatusStem(f) == <<"s", "-">> \o f.hash

\* lines 280-285: the hash suffix of the instance id, None without one
TargetHash(instance_id) ==
    IF instance_id.given /\ ContainsAt(instance_id.text)
    THEN LET maybe_hash == Strip(SplitAt(instance_id.text).hint_part) IN
         IF maybe_hash # <<>> THEN Some(maybe_hash) ELSE None
    ELSE None

\* json.load of a status file: the dict, None after json.JSONDecodeError
LoadStatus(f) == IF f.valid THEN Some(f) ELSE None

\* lines 256-260: indexes of the files whose stem ends with target_hash
FilesOfTarget(files, target_hash) ==
    {i \in 1..Len(files) : EndsWith(StatusStem(files[i]), target_hash)}

\* lines 246-276: read_status_file(target_hash)
ReadStatusFile(files, target_hash) ==
    IF files = <<>> THEN None
    ELSE LET own == IF target_hash = None THEN {}
                    ELSE FilesOfTarget(files, target_hash[1]) IN
         IF own # {}
         THEN LoadStatus(files[CHOOSE i \in own : \A j \in own : i <= j])
         ELSE LoadStatus(files[1])

\* line 290: status and (status.get('reloading') or status.get('reason') == 'reloading')
StatusSaysReloading(status) ==
    /\ status # None
    /\ (status[1].reloading \/ status[1].reason = "reloading")

\* lines 291-295: MCPResponse(success=False, error=..., hint="retry")
PreflightResponse == [success |-> FALSE, hint |-> "retry", data |-> None]

PreInit ==
    /\ pre_files \in {fs \in PreFileLists(MaxPreFiles) : DistinctHashes(fs)}
    /\ pre_instance_id \in PreInstanceIds
    /\ pre_pc = "call"
    /\ pre_status = None
    /\ pre_ret = None

\* line 289: status = read_status_file(target_hash)
PreflightRead ==
    /\ pre_pc = "call"
    /\ pre_status' = ReadStatusFile(pre_files, TargetHash(pre_instance_id))
    /\ pre_pc' = "read"
    /\ UNCHANGED <<pre_files, pre_instance_id, pre_ret>>
    /\ UNCHANGED notPre

\* lines 290-295: the short-circuit, nothing was connected or written
PreflightShortCircuit ==
    /\ pre_pc = "read"
    /\ StatusSaysReloading(pre_status)
    /\ pre_ret' = Some(PreflightResponse)
    /\ pre_pc' = "done"
    /\ UNCHANGED <<pre_files, pre_instance_id, pre_status>>
    /\ UNCHANGED notPre

\* line 299: the attempt loop is entered (connect, write)
PreflightProceed ==
    /\ pre_pc = "read"
    /\ ~StatusSaysReloading(pre_status)
    /\ pre_pc' = "loop"
    /\ UNCHANGED <<pre_files, pre_instance_id, pre_status, pre_ret>>
    /\ UNCHANGED notPre

PreNext == PreflightRead \/ PreflightShortCircuit \/ PreflightProceed

InitPreSpec ==
    PreInit /\ RecvIdle /\ RetryIdle /\ HubIdle /\ FastIdle /\ ResIdle /\ ScanIdle /\ ConnIdle /\ IoIdle /\ PoolIdle /\ SessIdle /\ MwIdle /\ CpIdle /\ RtIdle /\ RfIdle /\ EcsIdle

SpecPre == InitPreSpec /\ [][PreNext]_vars

\* the status file of the target instance itself reports reloading
TargetFileReportsReloading ==
    /\ pre_instance_id.given
    /\ \E i \in 1..Len(pre_files) :
           /\ pre_instance_id.text = <<"A", At>> \o pre_files[i].hash
           /\ pre_files[i].valid
           /\ (pre_files[i].reloading \/ pre_files[i].reason = "reloading")

\* C22: send_command returns the busy response without connecting or writing
\* if and only if the status file of the target instance itself reports
\* reloading; the status file of another instance never triggers it.
C22_ShortCircuitOnlyForTarget ==
    pre_pc \in {"loop", "done"} =>
        ((pre_pc = "done" /\ pre_ret # None) <=> TargetFileReportsReloading)

\* a running call is not held up for ever: every blocking step of connect()
\* and send_command has a timeout, and the backoff sleep is at most 3 s
SpecConnFair == SpecConn /\ WF_vars(ConnNext)

\* C23: send_command always terminates; it makes at most attempts + 1 tries
\* with attempts = max(config.max_retries, 5), the socket handle is cleared
\* after each failed try, and the exception propagates to the caller only
\* after the last try.
C23_BoundedTriesThenRaise ==
    /\ [](conn_attempt <= Max(conn_cfg.max_retries, AttemptFloor))
    /\ []((conn_pc = "s_attempt" /\ conn_attempt > 0) => sock = "none")
    /\ [](send_ret.kind = "raised" =>
              conn_attempt = Max(conn_cfg.max_retries, AttemptFloor))
    /\ (conn_pc = "s_attempt" ~> conn_pc = "idle")

\* C23 witness: every try failed and the call has raised after the try
\* numbered max(config.max_retries, 5), with a configuration above the floor.
C23_Witness ==
    /\ send_ret.kind = "raised"
    /\ conn_caller = "send_command"
    /\ conn_pc = "idle"
    /\ conn_attempt = MaxConfigRetries
    /\ sock = "none"

(***************************************************************************)
(* async_send_command_with_retry -> send_command_with_retry ->             *)
(* UnityConnectionPool.get_connection -> UnityConnection.send_command,     *)
(* for a target whose status file reports reloading during the whole call  *)
(***************************************************************************)
MaxPoolRetries == 2       \* largest reload_max_retries tried

PoolInit ==
    /\ pool_cfg \in [max_retries : 0..MaxPoolRetries,
                     retry_ms : {10, 400},
                     max_wait_ms : {ClampMaxWait(raw) : raw \in {0, 120, 40000}}]
    /\ pool_has_conn \in BOOLEAN
    /\ pool_pc = "start"
    /\ pool_now = 0
    /\ pool_wait_started = None
    /\ pool_retries = 0
    /\ pool_response = NoResponse
    /\ pool_ret = None

\* async_send_command_with_retry, line 870: MCPResponse(success=False, error=str(e))
PlainFailure == Resp("mcp", "None", "None", FALSE, None, None, "None")

\* lines 609-632: the pool holds a connection for the target and hands it out
GetConnectionReuse ==
    /\ pool_pc = "start"
    /\ pool_has_conn
    /\ pool_pc' = "send"
    /\ UNCHANGED <<pool_cfg, pool_has_conn, pool_now, pool_wait_started, pool_retries,
                   pool_response, pool_ret>>
    /\ UNCHANGED notPool

\* lines 609-620: a new UnityConnection connects (the editor's listener is up)
GetConnectionCreate ==
    /\ pool_pc = "start"
    /\ ~pool_has_conn
    /\ pool_has_conn' = TRUE
    /\ pool_pc' = "send"
    /\ UNCHANGED <<pool_cfg, pool_now, pool_wait_started, pool_retries, pool_response,
                   pool_ret>>
    /\ UNCHANGED notPool

\* lines 614-619: conn.connect() is False (the listener is down while the
\* editor reloads): ConnectionError leaves get_connection
GetConnectionFails ==
    /\ pool_pc = "start"
    /\ ~pool_has_conn
    /\ pool_pc' = "raised"
    /\ UNCHANGED <<pool_cfg, pool_has_conn, pool_now, pool_wait_started, pool_retries,
                   pool_response, pool_ret>>
    /\ UNCHANGED notPool

\* lines 771, 808, 287-295: conn.send_command stops at the preflight
PoolSend ==
    /\ pool_pc = "send"
    /\ pool_response' = PreflightReloading
    /\ \E d \in {0, MaxSendMs} : pool_now' = pool_now + d
    /\ pool_pc' = "check"
    /\ UNCHANGED <<pool_cfg, pool_has_conn, pool_wait_started, pool_retries, pool_ret>>
    /\ UNCHANGED notPool

\* line 775
PoolLoopCondition ==
    IsReloadingResponse(pool_response) /\ pool_retries < pool_cfg.max_retries

\* line 775: the loop is not entered or is left
PoolLoopExit ==
    /\ pool_pc = "check"
    /\ ~PoolLoopCondition
    /\ pool_pc' = "after"
    /\ UNCHANGED <<pool_cfg, pool_has_conn, pool_now, pool_wait_started, pool_retries,
                   pool_response, pool_ret>>
    /\ UNCHANGED notPool

\* lines 776-789: break
PoolBreak ==
    /\ pool_pc = "check"
    /\ PoolLoopCondition
    /\ pool_wait_started' = IF pool_wait_started = None THEN Some(pool_now)
                            ELSE pool_wait_started
    /\ \/ pool_cfg.max_wait_ms <= 0
       \/ BudgetExhausted(pool_now - pool_wait_started'[1], pool_cfg.max_wait_ms)
    /\ pool_pc' = "after"
    /\ UNCHANGED <<pool_cfg, pool_has_conn, pool_now, pool_retries, pool_response, pool_ret>>
    /\ UNCHANGED notPool

\* lines 776-807: sleep, retries += 1
PoolSleep ==
    /\ pool_pc = "check"
    /\ PoolLoopCondition
    /\ pool_wait_started' = IF pool_wait_started = None THEN Some(pool_now)
                            ELSE pool_wait_started
    /\ pool_cfg.max_wait_ms > 0
    /\ ~BudgetExhausted(pool_now - pool_wait_started'[1], pool_cfg.max_wait_ms)
    /\ pool_now' = pool_now + SleepMs(DelayMs(pool_response, pool_cfg.retry_ms))
    /\ pool_retries' = pool_retries + 1
    /\ pool_pc' = "send"
    /\ UNCHANGED <<pool_cfg, pool_has_conn, pool_response, pool_ret>>
    /\ UNCHANGED notPool

\* lines 811-835, 863-868: send_command_with_retry returns, the wrapper
\* hands the value on
PoolReturn ==
    /\ pool_pc = "after"
    /\ pool_ret' = IF pool_wait_started # None /\ IsReloadingResponse(pool_response)
                   THEN Some(BusyResponse(pool_cfg.retry_ms))
                   ELSE Some(pool_response)
    /\ pool_pc' = "done"
    /\ UNCHANGED <<pool_cfg, pool_has_conn, pool_now, pool_wait_started, pool_retries,
                   pool_response>>
    /\ UNCHANGED notPool

\* lines 869-870: except Exception as e
AsyncCatch ==
    /\ pool_pc = "raised"
    /\ pool_ret' = Some(PlainFailure)
    /\ pool_pc' = "done"
    /\ UNCHANGED <<pool_cfg, pool_has_conn, pool_now, pool_wait_started, pool_retries,
                   pool_response>>
    /\ UNCHANGED notPool

PoolNext ==
    \/ GetConnectionReuse
    \/ GetConnectionCreate
    \/ GetConnectionFails
    \/ PoolSend
    \/ PoolLoopExit
    \/ PoolBreak
    \/ PoolSleep
    \/ PoolReturn
    \/ AsyncCatch

InitPoolSpec ==
    PoolInit /\ RecvIdle /\ RetryIdle /\ HubIdle /\ FastIdle /\ ResIdle /\ ScanIdle /\ ConnIdle /\ IoIdle /\ PreIdle /\ SessIdle /\ MwIdle /\ CpIdle /\ RtIdle /\ RfIdle /\ EcsIdle

SpecPool == InitPoolSpec /\ [][PoolNext]_vars

\* C24: a command sent through async_send_command_with_retry to an instance
\* that is reloading ends in a busy response with hint 'retry' and a
\* suggested delay, never in an exception or a failure without hint, whether
\* or not the pool already holds a connection for the instance.
C24_ReloadingEndsBusy ==
    pool_pc = "done" =>
        /\ pool_ret[1].hint = "retry"
        /\ pool_ret[1].data_retry_after # None

\* the values data.reason may take in a structured busy response
BusyReasons == {"reloading", "tests_running", "no_unity_session", "busy"}

\* C25: every response with hint 'retry' that the session hub hands to the
\* caller (disconnect during a command, fast-path timeout, readiness probe
\* not answered) carries data with a reason out of reloading, tests_running,
\* no_unity_session, busy (and with it data.retry_after_ms); a response
\* built without data has reason "None".
C25_RetryHintCarriesData ==
    (fast_ret # None /\ fast_ret[1].hint = "retry") => fast_ret[1].reason \in BusyReasons

\* C26 as stated: for a command outside the fast-path set with requested
\* timeout r, the timeout sent to the peer is r limited to at most 3600 s and
\* the server waits that timeout plus the 5 s cushion; for a fast-path
\* command both are the fast-fail timeout.
C26_AsStated ==
    fast_sent =>
        IF fast_cfg.command_type \in {"read_console", "get_editor_state", "ping"}
        THEN /\ fast_unity_timeout = Some(FAST_FAIL_TIMEOUT)
             /\ fast_server_wait = Some(FAST_FAIL_TIMEOUT)
        ELSE fast_cfg.requested # None =>
                 /\ fast_unity_timeout = Some(Min(fast_cfg.requested[1], RequestedCeil))
                 /\ fast_server_wait = Some(fast_unity_timeout[1] + ServerCushion)

\* C26, amended: outside the fast-path set the requested timeout is limited
\* to [1 s, 3600 s]; the timeout sent is that value but never less than the
\* 30 s default, and the server waits that value plus the 5 s cushion but
\* never less than the 30 s default; for a fast-path command both are the
\* fast-fail timeout, whatever was requested.
C26_TimeoutFloorAndCeiling ==
    fast_sent =>
        IF fast_cfg.command_type \in {"read_console", "get_editor_state", "ping"}
        THEN /\ fast_unity_timeout = Some(FAST_FAIL_TIMEOUT)
             /\ fast_server_wait = Some(FAST_FAIL_TIMEOUT)
        ELSE fast_cfg.requested # None =>
                 LET r == fast_cfg.requested[1]
                     limited == IF r < RequestedFloor THEN RequestedFloor
                                ELSE IF r > RequestedCeil THEN RequestedCeil ELSE r
                 IN /\ fast_unity_timeout =
                           Some(IF limited < COMMAND_TIMEOUT THEN COMMAND_TIMEOUT ELSE limited)
                    /\ fast_server_wait =
                           Some(IF limited + ServerCushion < COMMAND_TIMEOUT
                                THEN COMMAND_TIMEOUT ELSE limited + ServerCushion)

\* C26 witness: a command outside the fast-path set was sent with a requested
\* timeout above one hour: 3600 s went to the peer, the server waits 3605 s.
C26_Witness ==
    /\ fast_sent
    /\ fast_cfg.command_type \notin {"read_console", "get_editor_state", "ping"}
    /\ fast_cfg.requested # None
    /\ fast_cfg.requested[1] > RequestedCeil
    /\ fast_unity_timeout = Some(RequestedCeil)
    /\ fast_server_wait = Some(RequestedCeil + ServerCushion)

\* C27: in every reachable state of the hub each live WebSocket is associated
\* with at most one session id, whatever register messages arrive (repeated
\* register on one socket included), and after on_disconnect of a WebSocket
\* no session id in the hub's connections refers to it.
C27_OneSessionPerWebSocket ==
    /\ \A w \in WebSockets :
           Cardinality({sid \in DOMAIN connections : connections[sid] = w}) <= 1
    /\ \A sid \in DOMAIN connections : ws_state[connections[sid]] # "closed"

\* C30 as stated: a fast-path command other than ping is sent to the peer
\* only after a ping on the session has been answered with pong; without a
\* pong the command is never sent and a response with hint 'retry' is
\* returned.
C30_AsStated ==
    fast_cfg.command_type \in {"read_console", "get_editor_state"} =>
        /\ fast_sent => fast_ponged
        /\ (fast_pc = "done" /\ ~fast_ponged) =>
               (~fast_sent /\ fast_ret[1].hint = "retry")

\* C30, amended: with a readiness window greater than 0 (the default is
\* 6 s), a fast-path command other than ping is sent only after a ping on the
\* session has been answered with pong, and without a pong the command is
\* never sent and a response with hint 'retry' is returned; with a window of
\* 0 there is no probe and the command is sent at once.
C30_SentOnlyAfterPong ==
    fast_cfg.command_type \in {"read_console", "get_editor_state"} =>
        /\ fast_cfg.ready_wait > 0 =>
               /\ fast_sent => fast_ponged
               /\ (fast_pc = "done" /\ ~fast_ponged) =>
                      (~fast_sent /\ fast_ret[1].hint = "retry")
        /\ (fast_cfg.ready_wait = 0 /\ fast_pc = "done" /\ fast_connected) =>
               (fast_sent /\ ~fast_ponged)

\* C30 witness: read_console with the default window went to a peer that
\* answered a probe ping only after earlier pings had failed.
C30_Witness ==
    /\ fast_pc = "done"
    /\ fast_cfg.command_type = "read_console"
    /\ fast_cfg.ready_wait = ReadyWaitDefault
    /\ fast_cfg.pings = "late"
    /\ fast_ponged
    /\ fast_sent

\* ---------------------------------------------------------------------------
\* PluginHub._resolve_session_id and the NoUnitySessionError branch of
\* PluginHub.send_command_for_instance (src/Server/src/transport/plugin_hub.py)
\* Time is counted in sleep intervals of the polling loop (0.25 s).

MaxRegistrations == 3
MaxSleepOverrun == 1

SleepsPerSecond == 4
MaxWaitCeil == 30
MaxWaitDefault == 2
NoSessionRetryAfterMs == 250

SessHashes == {<<"x">>, <<"7">>}

\* unity_instance: None, "", a hash, Name@hash, Name@, Name@Name@hash, and a
\* hash no peer has
UnityInstances ==
    {None, Some(<<>>), Some(<<"x">>), Some(<<"A", At, "x">>), Some(<<"A", At>>),
     Some(<<"A", At, "B", At, "7">>), Some(<<"z">>)}

\* UNITY_MCP_SESSION_RESOLVE_MAX_WAIT_S, in seconds
MaxWaitRawChoices == {-1, 0, MaxWaitDefault, MaxWaitCeil + 10}

\* sessions registered when the call starts; the session id is the index
InitialRegistries ==
    {<<>>, <<(<<"x">>)>>, <<(<<"7">>)>>, << <<"x">>, <<"7">> >>}

\* "@" in s
HasAt(s) == \E k \in 1..Len(s) : s[k] = At

\* s.rpartition("@")[2], for s containing "@"
RPartitionSuffix(s) ==
    LET i == CHOOSE k \in 1..Len(s) :
                 s[k] = At /\ \A j \in (k + 1)..Len(s) : s[j] # At
    IN  SubSeq(s, i + 1, Len(s))

\* target_hash of _resolve_session_id: None or Some(hash)
SessTargetHash(unity_instance) ==
    IF unity_instance = None \/ unity_instance[1] = <<>> THEN None
    ELSE IF HasAt(unity_instance[1])
         THEN LET suffix == RPartitionSuffix(unity_instance[1])
              IN  IF suffix = <<>> THEN None ELSE Some(suffix)
         ELSE Some(unity_instance[1])

ClampWaitNone(w) == w

\* max(0.0, min(max_wait_s, 30.0))
ClampWait(w) == Max(0, Min(w, MaxWaitCeil))

AmbiguousNever(target_hash, session_count) == FALSE

\* not target_hash and session_count > 1
Ambiguous(target_hash, session_count) ==
    target_hash = None /\ session_count > 1

\* PluginRegistry.get_session_id_by_hash
GetSessionIdByHash(reg, h) ==
    IF \E sid \in DOMAIN reg : StartsWith(reg[sid], h)
    THEN Some(CHOOSE sid \in DOMAIN reg : StartsWith(reg[sid], h))
    ELSE None

\* _try_once(): (session_id, session_count)
TryOnce(reg, target_hash) ==
    LET count == Cardinality(DOMAIN reg)
    IN  IF target_hash # None
        THEN [session_id |-> GetSessionIdByHash(reg, target_hash[1]),
              session_count |-> count]
        ELSE IF count = 0 THEN [session_id |-> None, session_count |-> count]
        ELSE IF count = 1
             THEN [session_id |-> Some(CHOOSE sid \in DOMAIN reg : TRUE),
                   session_count |-> count]
        ELSE [session_id |-> None, session_count |-> count]

SessTarget == SessTargetHash(sess_cfg.unity_instance)
SessCount == Cardinality(DOMAIN sess_sessions)

SessInit ==
    /\ sess_cfg \in [unity_instance : UnityInstances, max_wait_raw : MaxWaitRawChoices]
    /\ sess_registry \in InitialRegistries
    /\ sess_next_sid = Len(sess_registry) + 1
    /\ sess_pc = "call"
    /\ sess_t = 0
    /\ sess_deadline = 0
    /\ sess_session_id = None
    /\ sess_sessions = <<>>
    /\ sess_polled_at = 0
    /\ sess_first = None
    /\ sess_res = [kind |-> "none"]
    /\ sess_ret = [kind |-> "none"]

\* a peer registers on a new WebSocket while the call is in progress
SessRegister(h) ==
    /\ sess_pc \in {"call", "loop"}
    /\ sess_next_sid <= MaxRegistrations
    /\ \A sid \in DOMAIN sess_registry : sess_registry[sid] # h
    /\ sess_registry' = [sid \in DOMAIN sess_registry \cup {sess_next_sid} |->
                            IF sid = sess_next_sid THEN h ELSE sess_registry[sid]]
    /\ sess_next_sid' = sess_next_sid + 1
    /\ UNCHANGED <<sess_cfg, sess_pc, sess_t, sess_deadline, sess_session_id,
                   sess_sessions, sess_polled_at, sess_first, sess_res, sess_ret>>
    /\ UNCHANGED notSess

\* on_disconnect: the registry forgets the session
SessUnregister(sid) ==
    /\ sess_pc \in {"call", "loop"}
    /\ sid \in DOMAIN sess_registry
    /\ sess_registry' = [x \in DOMAIN sess_registry \ {sid} |-> sess_registry[x]]
    /\ UNCHANGED <<sess_cfg, sess_next_sid, sess_pc, sess_t, sess_deadline,
                   sess_session_id, sess_sessions, sess_polled_at, sess_first,
                   sess_res, sess_ret>>
    /\ UNCHANGED notSess

\* session_id, session_count = await _try_once(); deadline = now + max_wait_s
ResolveFirstTry ==
    /\ sess_pc = "call"
    /\ LET r == TryOnce(sess_registry, SessTarget)
       IN  /\ sess_session_id' = r.session_id
           /\ sess_first' = Some(r)
    /\ sess_sessions' = sess_registry
    /\ sess_polled_at' = sess_t
    /\ sess_deadline' = sess_t + ClampWait(sess_cfg.max_wait_raw) * SleepsPerSecond
    /\ sess_pc' = "loop"
    /\ UNCHANGED <<sess_cfg, sess_registry, sess_next_sid, sess_t, sess_res, sess_ret>>
    /\ UNCHANGED notSess

\* inside the loop: raise RuntimeError("Multiple Unity instances ...")
ResolveLoopRaise ==
    /\ sess_pc = "loop"
    /\ sess_session_id = None /\ sess_t < sess_deadline
    /\ Ambiguous(SessTarget, SessCount)
    /\ sess_res' = [kind |-> "runtime_error"]
    /\ sess_pc' = "resolved"
    /\ UNCHANGED <<sess_cfg, sess_registry, sess_next_sid, sess_t, sess_deadline,
                   sess_session_id, sess_sessions, sess_polled_at, sess_first, sess_ret>>
    /\ UNCHANGED notSess

\* inside the loop: await asyncio.sleep(sleep_seconds); _try_once() again
ResolveSleepAndRetry(overrun) ==
    /\ sess_pc = "loop"
    /\ sess_session_id = None /\ sess_t < sess_deadline
    /\ ~Ambiguous(SessTarget, SessCount)
    /\ sess_t' = sess_t + 1 + overrun
    /\ sess_session_id' = TryOnce(sess_registry, SessTarget).session_id
    /\ sess_sessions' = sess_registry
    /\ sess_polled_at' = sess_t'
    /\ UNCHANGED <<sess_cfg, sess_registry, sess_next_sid, sess_pc, sess_deadline,
                   sess_first, sess_res, sess_ret>>
    /\ UNCHANGED notSess

\* after the loop: RuntimeError, NoUnitySessionError or return session_id
ResolveAfterLoop ==
    /\ sess_pc = "loop"
    /\ ~(sess_session_id = None /\ sess_t < sess_deadline)
    /\ sess_res' = IF sess_session_id = None /\ Ambiguous(SessTarget, SessCount)
                       THEN [kind |-> "runtime_error"]
                   ELSE IF sess_session_id = None
                       THEN [kind |-> "no_session"]
                   ELSE [kind |-> "returned", session_id |-> sess_session_id[1]]
    /\ sess_pc' = "resolved"
    /\ UNCHANGED <<sess_cfg, sess_registry, sess_next_sid, sess_t, sess_deadline,
                   sess_session_id, sess_sessions, sess_polled_at, sess_first, sess_ret>>
    /\ UNCHANGED notSess

\* send_command_for_instance: except NoUnitySessionError -> busy response
SendCatchNoSession ==
    /\ sess_pc = "resolved"
    /\ sess_res.kind = "no_session"
    /\ sess_ret' = [kind |-> "response", success |-> FALSE, hint |-> "retry",
                    reason |-> "no_unity_session",
                    retry_after_ms |-> NoSessionRetryAfterMs]
    /\ sess_pc' = "done"
    /\ UNCHANGED <<sess_cfg, sess_registry, sess_next_sid, sess_t, sess_deadline,
                   sess_session_id, sess_sessions, sess_polled_at, sess_first, sess_res>>
    /\ UNCHANGED notSess

\* send_command_for_instance: any other exception leaves the function
SendPropagates ==
    /\ sess_pc = "resolved"
    /\ sess_res.kind = "runtime_error"
    /\ sess_ret' = [kind |-> "raised"]
    /\ sess_pc' = "done"
    /\ UNCHANGED <<sess_cfg, sess_registry, sess_next_sid, sess_t, sess_deadline,
                   sess_session_id, sess_sessions, sess_polled_at, sess_first, sess_res>>
    /\ UNCHANGED notSess

\* send_command_for_instance: a session id came back, the command goes on
SendProceeds ==
    /\ sess_pc = "resolved"
    /\ sess_res.kind = "returned"
    /\ sess_ret' = [kind |-> "proceeds", session_id |-> sess_res.session_id]
    /\ sess_pc' = "done"
    /\ UNCHANGED <<sess_cfg, sess_registry, sess_next_sid, sess_t, sess_deadline,
                   sess_session_id, sess_sessions, sess_polled_at, sess_first, sess_res>>
    /\ UNCHANGED notSess

SessNext ==
    \/ \E h \in SessHashes : SessRegister(h)
    \/ \E sid \in 1..MaxRegistrations : SessUnregister(sid)
    \/ ResolveFirstTry
    \/ ResolveLoopRaise
    \/ \E overrun \in 0..MaxSleepOverrun : ResolveSleepAndRetry(overrun)
    \/ ResolveAfterLoop
    \/ SendCatchNoSession
    \/ SendPropagates
    \/ SendProceeds

InitSessSpec ==
    SessInit /\ RecvIdle /\ RetryIdle /\ HubIdle /\ FastIdle /\ ResIdle /\ ScanIdle /\ ConnIdle /\ IoIdle /\ PreIdle /\ PoolIdle /\ MwIdle /\ CpIdle /\ RtIdle /\ RfIdle /\ EcsIdle

SpecSess == InitSessSpec /\ [][SessNext]_vars

C29_AsStated ==
    (/\ sess_pc = "done"
     /\ sess_first[1].session_id = None
     /\ ~(SessTarget = None /\ sess_first[1].session_count > 1)) =>
        \/ sess_ret.kind = "proceeds"
        \/ /\ sess_ret.kind = "response"
           /\ sess_ret.hint = "retry"
           /\ sess_ret.reason = "no_unity_session"
           /\ sess_ret.retry_after_ms > 0

\* C29, amended: when the first look finds no matching session, the loop
\* polls within a window of 0 to 30 s; a session id is returned only if the
\* last poll listed it (with the hinted hash, if a hash was hinted);
\* NoUnitySessionError comes only from a poll at or after the deadline that
\* found no session, and send_command_for_instance turns it into the busy
\* response (hint 'retry', reason 'no_unity_session', retry_after_ms 250);
\* the one exception that reaches the caller is the select-an-instance error,
\* raised when no hint was given and a poll listed more than one session.
C29_PollsThenBusyOrSelectError ==
    /\ sess_pc # "call" =>
           /\ sess_deadline >= 0
           /\ sess_deadline <= MaxWaitCeil * SleepsPerSecond
    /\ sess_res.kind = "returned" =>
           /\ sess_res.session_id \in DOMAIN sess_sessions
           /\ SessTarget # None =>
                  StartsWith(sess_sessions[sess_res.session_id], SessTarget[1])
    /\ sess_res.kind = "no_session" =>
           /\ sess_polled_at >= sess_deadline
           /\ SessTarget = None => sess_sessions = <<>>
           /\ SessTarget # None =>
                  \A sid \in DOMAIN sess_sessions :
                      ~StartsWith(sess_sessions[sid], SessTarget[1])
    /\ sess_pc = "done" =>
           \/ /\ sess_res.kind = "returned"
              /\ sess_ret = [kind |-> "proceeds", session_id |-> sess_res.session_id]
           \/ /\ sess_res.kind = "no_session"
              /\ sess_ret = [kind |-> "response", success |-> FALSE, hint |-> "retry",
                             reason |-> "no_unity_session",
                             retry_after_ms |-> NoSessionRetryAfterMs]
           \/ /\ sess_res.kind = "runtime_error"
              /\ sess_ret.kind = "raised"
              /\ SessTarget = None
              /\ Cardinality(DOMAIN sess_sessions) > 1

\* C29 witness: a hinted session was missing at first, registered during the
\* wait, and was returned before the window ended.
C29_Witness ==
    /\ sess_pc = "done"
    /\ sess_cfg.unity_instance = Some(<<"A", At, "x">>)
    /\ sess_first[1].session_id = None
    /\ sess_ret.kind = "proceeds"
    /\ sess_t > 0 /\ sess_t < sess_deadline

\* ---------------------------------------------------------------------------
\* UnityInstanceMiddleware (src/Server/src/transport/unity_instance_middleware.py)
\* and the selection it keeps per session key.

MaxDiscovered == 2

\* ctx.client_id as the transports deliver it: missing, "", a number, a name,
\* and a client that calls itself "global"
Contexts ==
    {[type |-> "none", val |-> ""], [type |-> "str", val |-> ""],
     [type |-> "int", val |-> "7"], [type |-> "str", val |-> "a"],
     [type |-> "str", val |-> "global"]}

SessionKeys == {"a", "global"}

MwInstanceIds == <<"P@x", "Q@7", "R@z", "S@y">>

\* the ids one discovery can list: the first n of MwInstanceIds
IdLists == {SubSeq(MwInstanceIds, 1, n) : n \in 0..Min(MaxDiscovered, Len(MwInstanceIds))}

GetSessionKeyRaw(client_id) == IF client_id.type = "str" THEN client_id.val ELSE "global"

\* get_session_key
GetSessionKey(client_id) ==
    IF client_id.type = "str" /\ client_id.val # "" THEN client_id.val ELSE "global"

IsSoleOrFirst(ids) == Len(ids) >= 1

\* len(ids) == 1
IsSole(ids) == Len(ids) = 1

\* the ids _maybe_autoselect_instance gets to see, probe by probe:
\* the hub's sessions if PluginHub is configured, then the discovered
\* instances unless the transport is http; a probe that raises lists nothing
Autoselected(env, hub_raises, stdio_raises) ==
    IF env.hub_configured /\ ~hub_raises /\ IsSole(env.hub_ids)
        THEN Some(env.hub_ids[1])
    ELSE IF env.transport # "http" /\ ~stdio_raises /\ IsSole(env.stdio_ids)
        THEN Some(env.stdio_ids[1])
    ELSE None

\* a server on stdio serves no WebSocket route, so no peer session exists
MwEnvs ==
    {e \in [transport : {"http", "stdio"}, hub_configured : BOOLEAN,
            hub_ids : IdLists, stdio_ids : IdLists] :
        /\ e.transport = "stdio" => e.hub_ids = <<>>
        /\ ~e.hub_configured => e.hub_ids = <<>>}

MwInit ==
    /\ mw_env \in MwEnvs
    /\ mw_active = [k \in SessionKeys |-> None]
    /\ mw_pc = [c \in Contexts |-> "idle"]
    /\ mw_last = [kind |-> "none", key |-> "none"]

\* set_active_instance(ctx, instance_id), as the tool of that name calls it
SetActiveInstance(c, instance_id) ==
    /\ mw_active' = [mw_active EXCEPT ![GetSessionKey(c)] = Some(instance_id)]
    /\ mw_last' = [kind |-> "set", key |-> GetSessionKey(c), ctx |-> c]
    /\ UNCHANGED <<mw_env, mw_pc>>
    /\ UNCHANGED notMw

\* clear_active_instance(ctx)
ClearActiveInstance(c) ==
    /\ mw_active' = [mw_active EXCEPT ![GetSessionKey(c)] = None]
    /\ mw_last' = [kind |-> "clear", key |-> GetSessionKey(c), ctx |-> c]
    /\ UNCHANGED <<mw_env, mw_pc>>
    /\ UNCHANGED notMw

\* _inject_unity_instance up to the decision `if not active_instance`
InjectGetActive(c) ==
    /\ mw_pc[c] = "idle"
    /\ IF mw_active[GetSessionKey(c)] # None
       THEN /\ mw_last' = [kind |-> "inject", key |-> GetSessionKey(c), ctx |-> c,
                           had_selection |-> TRUE, hook_ran |-> FALSE,
                           before |-> mw_active[GetSessionKey(c)],
                           after |-> mw_active[GetSessionKey(c)]]
            /\ UNCHANGED mw_pc
       ELSE /\ mw_last' = [kind |-> "read", key |-> GetSessionKey(c), ctx |-> c]
            /\ mw_pc' = [mw_pc EXCEPT ![c] = "hook"]
    /\ UNCHANGED <<mw_env, mw_active>>
    /\ UNCHANGED notMw

\* _maybe_autoselect_instance and the rest of _inject_unity_instance
MaybeAutoselect(c, hub_raises, stdio_raises) ==
    /\ mw_pc[c] = "hook"
    /\ LET chosen == Autoselected(mw_env, hub_raises, stdio_raises)
           key == GetSessionKey(c)
       IN  /\ mw_active' = IF chosen # None
                               THEN [mw_active EXCEPT ![key] = chosen]
                               ELSE mw_active
           /\ mw_last' = [kind |-> "inject", key |-> key, ctx |-> c,
                          had_selection |-> FALSE, hook_ran |-> TRUE,
                          env |-> mw_env,
                          raised |-> [hub |-> hub_raises, stdio |-> stdio_raises],
                          before |-> mw_active[key], after |-> mw_active'[key]]
    /\ mw_pc' = [mw_pc EXCEPT ![c] = "idle"]
    /\ UNCHANGED mw_env
    /\ UNCHANGED notMw

\* peers come and go
MwEnvChange ==
    /\ \E e \in MwEnvs :
           /\ e.transport = mw_env.transport
           /\ e.hub_configured = mw_env.hub_configured
           /\ e # mw_env
           /\ mw_env' = e
    /\ mw_last' = [kind |-> "env", key |-> "none"]
    /\ UNCHANGED <<mw_active, mw_pc>>
    /\ UNCHANGED notMw

MwNext ==
    \/ \E c \in Contexts, i \in 1..MaxDiscovered : SetActiveInstance(c, MwInstanceIds[i])
    \/ \E c \in Contexts : ClearActiveInstance(c)
    \/ \E c \in Contexts : InjectGetActive(c)
    \/ \E c \in Contexts, hub_raises \in BOOLEAN, stdio_raises \in BOOLEAN :
           MaybeAutoselect(c, hub_raises, stdio_raises)
    \/ MwEnvChange

InitMwSpec ==
    MwInit /\ RecvIdle /\ RetryIdle /\ HubIdle /\ FastIdle /\ ResIdle /\ ScanIdle /\ ConnIdle /\ IoIdle /\ PreIdle /\ PoolIdle /\ SessIdle /\ CpIdle /\ RtIdle /\ RfIdle /\ EcsIdle

SpecMw == InitMwSpec /\ [][MwNext]_vars

\* C31: a set_active_instance or clear_active_instance for one session key
\* leaves the selection of every other key as it was, and every caller whose
\* client_id is not a non-empty string works on the key 'global'.
C31_KeysAreIsolated ==
    [][mw_last'.kind \in {"set", "clear", "read", "inject"} =>
           /\ mw_last'.kind \in {"set", "clear"} =>
                  \A k \in SessionKeys :
                      k # mw_last'.key => mw_active'[k] = mw_active[k]
           /\ (mw_last'.ctx.type # "str" \/ mw_last'.ctx.val = "") =>
                  mw_last'.key = "global"
           /\ (mw_last'.ctx.type = "str" /\ mw_last'.ctx.val # "") =>
                  mw_last'.key = mw_last'.ctx.val]_vars

\* C31 witness: a caller with a numeric client_id has just overwritten the
\* shared selection while the selection of client "a" is a different one.
C31_Witness ==
    /\ mw_last.kind = "set"
    /\ mw_last.ctx.type = "int"
    /\ mw_active["global"] = Some("Q@7")
    /\ mw_active["a"] = Some("P@x")

\* the ids a run of the auto-select hook could discover
Discoverable(env, raised) ==
    IF env.transport = "http"
    THEN IF env.hub_configured /\ ~raised.hub THEN env.hub_ids ELSE <<>>
    ELSE IF ~raised.stdio THEN env.stdio_ids ELSE <<>>

\* C32: a call made with no active selection runs the auto-select hook, which
\* stores the one discoverable instance when there is exactly one and leaves
\* the selection alone when there are none or several; a call made with an
\* active selection does not run the hook and leaves the selection unchanged.
C32_AutoSelectExactlyWhenSole ==
    mw_last.kind = "inject" =>
        IF mw_last.had_selection
        THEN ~mw_last.hook_ran /\ mw_last.after = mw_last.before
        ELSE /\ mw_last.hook_ran
             /\ LET ids == Discoverable(mw_last.env, mw_last.raised)
                IN  /\ Len(ids) = 1 => mw_last.after = Some(ids[1])
                    /\ Len(ids) # 1 => mw_last.after = mw_last.before

\* C32 witness: on http with two sessions registered the hook ran and left
\* the selection of the caller unset.
C32_Witness ==
    /\ mw_last.kind = "inject"
    /\ mw_last.hook_ran
    /\ mw_last.env.transport = "http"
    /\ Len(mw_last.env.hub_ids) = 2
    /\ mw_last.after = None

\* ---------------------------------------------------------------------------
\* UnityConnectionPool (src/Server/src/transport/legacy/unity_connection.py):
\* get_connection, discover_all_instances, disconnect_all, and the port
\* re-discovery of a send.

MaxPoolObjects == 3

CpA == [name |-> <<"A">>, hash |-> <<"x", "x">>, last_heartbeat |-> None]
CpA2 == [name |-> <<"A">>, hash |-> <<"x", "7">>, last_heartbeat |-> None]
CpB == [name |-> <<"B">>, hash |-> <<"7", "7">>, last_heartbeat |-> Some(1)]

\* what a scan can find: nothing, one or two editors, the same editors on
\* other ports, two editors of one project name
CpInstanceLists ==
    {<<>>, <<InstanceInfo(CpA, 1)>>, <<InstanceInfo(CpB, 1)>>,
     <<InstanceInfo(CpA, 1), InstanceInfo(CpB, 2)>>,
     <<InstanceInfo(CpB, 1), InstanceInfo(CpA, 2)>>,
     <<InstanceInfo(CpA, 1), InstanceInfo(CpA2, 2)>>}

CpIdentifiers ==
    {NotGiven, Given(<<"A">>), Given(<<"7", "7">>), Given(<<"A", At, "x", "x">>),
     Given(<<"C">>)}

InPoolNever(id, conns) == FALSE

\* target.id in self._connections
InPool(id, conns) == id \in DOMAIN conns

CpInit ==
    /\ cp_instances \in CpInstanceLists
    /\ cp_known = <<>>
    /\ cp_fresh = FALSE
    /\ cp_connections = <<>>
    /\ cp_next_obj = 1
    /\ cp_last = [kind |-> "none"]

\* instances = self.discover_all_instances(): the cache while it is fresh,
\* a new scan otherwise
DiscoveredNow(force_refresh) ==
    IF ~force_refresh /\ cp_fresh THEN cp_known ELSE cp_instances

\* discover_all_instances(force_refresh)
DiscoverAllInstances(force_refresh) ==
    /\ cp_known' = DiscoveredNow(force_refresh)
    /\ cp_fresh' = TRUE
    /\ cp_last' = [kind |-> "discover"]
    /\ UNCHANGED <<cp_instances, cp_connections, cp_next_obj>>
    /\ UNCHANGED notCp

\* get_connection(instance_identifier); connect_ok: conn.connect() succeeds
GetConnection(instance_identifier, connect_ok) ==
    LET instances == DiscoveredNow(FALSE)
        target == ResolveInstanceId(instance_identifier, instances, NotGiven)
    IN  /\ cp_known' = instances
        /\ cp_fresh' = TRUE
        /\ IF target.kind # "instance"
           THEN /\ cp_last' = [kind |-> "get", outcome |-> "raised"]
                /\ UNCHANGED <<cp_connections, cp_next_obj>>
           ELSE IF ~InPool(target.inst.id, cp_connections)
           THEN /\ cp_next_obj <= MaxPoolObjects
                /\ cp_next_obj' = cp_next_obj + 1
                /\ IF connect_ok
                   THEN /\ cp_connections' =
                               [id \in DOMAIN cp_connections \cup {target.inst.id} |->
                                   IF id = target.inst.id
                                   THEN [obj |-> cp_next_obj,
                                         instance_id |-> target.inst.id,
                                         port |-> target.inst.port]
                                   ELSE cp_connections[id]]
                        /\ cp_last' = [kind |-> "get", outcome |-> "returned",
                                       id |-> target.inst.id, obj |-> cp_next_obj]
                   ELSE /\ UNCHANGED cp_connections
                        /\ cp_last' = [kind |-> "get", outcome |-> "raised"]
           ELSE /\ cp_connections' =
                       [cp_connections EXCEPT ![target.inst.id] =
                           [obj |-> @.obj, instance_id |-> target.inst.id,
                            port |-> target.inst.port]]
                /\ cp_last' = [kind |-> "get", outcome |-> "returned",
                               id |-> target.inst.id,
                               obj |-> cp_connections[target.inst.id].obj]
                /\ UNCHANGED cp_next_obj
        /\ UNCHANGED cp_instances
        /\ UNCHANGED notCp

\* a send on a pooled connection fails and re-discovers the port
CpSendRediscovers(id, p) ==
    /\ id \in DOMAIN cp_connections
    /\ cp_connections[id].port # Ports[p]
    /\ cp_connections' = [cp_connections EXCEPT ![id].port = Ports[p]]
    /\ cp_last' = [kind |-> "send", id |-> id]
    /\ UNCHANGED <<cp_instances, cp_known, cp_fresh, cp_next_obj>>
    /\ UNCHANGED notCp

\* disconnect_all()
DisconnectAll ==
    /\ cp_connections # <<>>
    /\ cp_connections' = <<>>
    /\ cp_last' = [kind |-> "disconnect_all"]
    /\ UNCHANGED <<cp_instances, cp_known, cp_fresh, cp_next_obj>>
    /\ UNCHANGED notCp

\* editors start and stop, and _scan_interval goes by
CpEnvChange ==
    /\ cp_instances' \in CpInstanceLists
    /\ cp_fresh' \in {cp_fresh, FALSE}
    /\ <<cp_instances', cp_fresh'>> # <<cp_instances, cp_fresh>>
    /\ cp_last' = [kind |-> "env"]
    /\ UNCHANGED <<cp_known, cp_connections, cp_next_obj>>
    /\ UNCHANGED notCp

CpNext ==
    \/ \E force_refresh \in BOOLEAN : DiscoverAllInstances(force_refresh)
    \/ \E i \in CpIdentifiers, connect_ok \in BOOLEAN : GetConnection(i, connect_ok)
    \/ \E id \in DOMAIN cp_connections, p \in 1..2 : CpSendRediscovers(id, p)
    \/ DisconnectAll
    \/ CpEnvChange

InitCpSpec ==
    CpInit /\ RecvIdle /\ RetryIdle /\ HubIdle /\ FastIdle /\ ResIdle /\ ScanIdle /\ ConnIdle /\ IoIdle /\ PreIdle /\ PoolIdle /\ SessIdle /\ MwIdle /\ RtIdle /\ RfIdle /\ EcsIdle

SpecCp == InitCpSpec /\ [][CpNext]_vars

\* C33: every stored connection's instance_id equals its key; as long as
\* disconnect_all is not called, no operation removes an entry or replaces
\* the object stored under an id, and every get_connection that returns
\* hands out the object stored under the resolved id.
C33_OneConnectionPerInstance ==
    /\ [](\A id \in DOMAIN cp_connections : cp_connections[id].instance_id = id)
    /\ [](cp_last.kind = "get" /\ cp_last.outcome = "returned" =>
              /\ cp_last.id \in DOMAIN cp_connections
              /\ cp_connections[cp_last.id].obj = cp_last.obj)
    /\ [][cp_last'.kind # "disconnect_all" =>
              \A id \in DOMAIN cp_connections :
                  /\ id \in DOMAIN cp_connections'
                  /\ cp_connections'[id].obj = cp_connections[id].obj]_vars

\* C33 witness: two instances are pooled, and the last get_connection
\* returned the object created first although a later object exists.
C33_Witness ==
    /\ Cardinality(DOMAIN cp_connections) = 2
    /\ cp_last.kind = "get" /\ cp_last.outcome = "returned"
    /\ cp_last.obj = 1
    /\ cp_next_obj = 3

\* ---------------------------------------------------------------------------
\* run_tests (src/Server/src/services/tools/run_tests.py) behind the gate
\* preflight(requires_no_tests, wait_for_no_compile, refresh_if_dirty)
\* (src/Server/src/services/tools/preflight.py).
\* Time is counted in sleeps of the compile wait (0.25 s).

MaxCompilePolls == 2

PreflightMaxWaitS == 30
PreflightPollsPerSecond == 4
TestsRunningRetryMs == 5000
CompilingRetryMs == 500

\* _busy(reason, retry_after_ms), and the same shape for a dict of the transport
ToolResponse(success, error, hint, reason, retry_after_ms) ==
    [kind |-> "MCPResponse", success |-> success, error |-> error, hint |-> hint,
     reason |-> reason, retry_after_ms |-> retry_after_ms]

Busy(reason, retry_after_ms) ==
    ToolResponse(FALSE, "busy", "retry", reason, Some(retry_after_ms))

\* what send_with_unity_instance can hand back for run_tests: the job was
\* started, the peer refuses because a run is in progress, the transport is
\* busy, or something that is not a dict
RunTestsReplies ==
    {[type |-> "dict", success |-> TRUE, error |-> "None", hint |-> "None",
      reason |-> "None", retry_after_ms |-> None],
     [type |-> "dict", success |-> FALSE,
      error |-> "A Unity test run is already in progress.", hint |-> "None",
      reason |-> "None", retry_after_ms |-> None],
     [type |-> "dict", success |-> FALSE, error |-> "Unity is reloading",
      hint |-> "retry", reason |-> "reloading", retry_after_ms |-> Some(250)],
     [type |-> "other", success |-> FALSE, error |-> "None", hint |-> "None",
      reason |-> "None", retry_after_ms |-> None]}

\* get_editor_state: raises, answers without success, or answers with data;
\* tests.is_running is True, False or not there; the editor compiles during
\* the first `compiling` snapshots (MaxCompilePolls + 1 stands for: always)
RtConfigs ==
    [in_pytest : BOOLEAN,
     state : {"raises", "unsuccessful", "ok"},
     tests_is_running : {"True", "False", "missing"},
     compiling : 0..(MaxCompilePolls + 1),
     reply : RunTestsReplies]

IsCompiling(cfg, polls) ==
    \/ cfg.compiling > MaxCompilePolls
    \/ polls <= cfg.compiling

\* requires_no_tests: tests.get("is_running") is True
GateSeesTestsRunning(cfg) == cfg.tests_is_running = "True"

RtInit ==
    /\ rt_cfg \in RtConfigs
    /\ rt_pc = "call"
    /\ rt_t = 0
    /\ rt_polls = 0
    /\ rt_sent = FALSE
    /\ rt_ret = [kind |-> "none"]

\* preflight returns None at once: under pytest, or without a usable state
GateSkipped ==
    /\ rt_pc = "call"
    /\ rt_cfg.in_pytest \/ rt_cfg.state # "ok"
    /\ rt_pc' = "send"
    /\ UNCHANGED <<rt_cfg, rt_t, rt_polls, rt_sent, rt_ret>>
    /\ UNCHANGED notRt

\* preflight: the state says a test run is active
GateTestsRunning ==
    /\ rt_pc = "call"
    /\ ~rt_cfg.in_pytest /\ rt_cfg.state = "ok"
    /\ GateSeesTestsRunning(rt_cfg)
    /\ rt_ret' = Busy("tests_running", TestsRunningRetryMs)
    /\ rt_polls' = 1
    /\ rt_pc' = "done"
    /\ UNCHANGED <<rt_cfg, rt_t, rt_sent>>
    /\ UNCHANGED notRt

\* preflight: no test run seen, on to the compile wait with its deadline
GateEntersCompileWait ==
    /\ rt_pc = "call"
    /\ ~rt_cfg.in_pytest /\ rt_cfg.state = "ok"
    /\ ~GateSeesTestsRunning(rt_cfg)
    /\ rt_polls' = 1
    /\ rt_pc' = "compile_wait"
    /\ UNCHANGED <<rt_cfg, rt_t, rt_sent, rt_ret>>
    /\ UNCHANGED notRt

\* compile wait: not compiling, preflight returns None
GateCompileDone ==
    /\ rt_pc = "compile_wait"
    /\ ~IsCompiling(rt_cfg, rt_polls)
    /\ rt_pc' = "send"
    /\ UNCHANGED <<rt_cfg, rt_t, rt_polls, rt_sent, rt_ret>>
    /\ UNCHANGED notRt

\* compile wait: still compiling at the deadline
GateCompileTimeout ==
    /\ rt_pc = "compile_wait"
    /\ IsCompiling(rt_cfg, rt_polls)
    /\ rt_t >= PreflightMaxWaitS * PreflightPollsPerSecond
    /\ rt_ret' = Busy("compiling", CompilingRetryMs)
    /\ rt_pc' = "done"
    /\ UNCHANGED <<rt_cfg, rt_t, rt_polls, rt_sent>>
    /\ UNCHANGED notRt

\* compile wait: sleep 0.25 s and fetch the state again
GateCompileSleep(state_ok) ==
    /\ rt_pc = "compile_wait"
    /\ IsCompiling(rt_cfg, rt_polls)
    /\ rt_t < PreflightMaxWaitS * PreflightPollsPerSecond
    /\ rt_t' = rt_t + 1
    /\ rt_polls' = IF rt_polls <= MaxCompilePolls THEN rt_polls + 1 ELSE rt_polls
    /\ rt_pc' = IF state_ok THEN "compile_wait" ELSE "send"
    /\ UNCHANGED <<rt_cfg, rt_sent, rt_ret>>
    /\ UNCHANGED notRt

\* run_tests after the gate: send the command and shape the answer
RunTestsSend ==
    /\ rt_pc = "send"
    /\ rt_sent' = TRUE
    /\ LET reply == rt_cfg.reply
       IN  rt_ret' =
               IF reply.type = "dict"
               THEN IF ~reply.success
                    THEN ToolResponse(reply.success, reply.error, reply.hint,
                                      reply.reason, reply.retry_after_ms)
                    ELSE [kind |-> "RunTestsStartResponse"]
               ELSE ToolResponse(FALSE, "str(response)", "None", "None", None)
    /\ rt_pc' = "done"
    /\ UNCHANGED <<rt_cfg, rt_t, rt_polls>>
    /\ UNCHANGED notRt

RtNext ==
    \/ GateSkipped
    \/ GateTestsRunning
    \/ GateEntersCompileWait
    \/ GateCompileDone
    \/ GateCompileTimeout
    \/ \E state_ok \in BOOLEAN : GateCompileSleep(state_ok)
    \/ RunTestsSend

InitRtSpec ==
    RtInit /\ RecvIdle /\ RetryIdle /\ HubIdle /\ FastIdle /\ ResIdle /\ ScanIdle /\ ConnIdle /\ IoIdle /\ PreIdle /\ PoolIdle /\ SessIdle /\ MwIdle /\ CpIdle /\ RfIdle /\ EcsIdle

SpecRt == InitRtSpec /\ [][RtNext]_vars

\* the peer has told this call that a test run is in progress: through the
\* editor state the gate read, or through its reply to the command
PeerReportedTestRun ==
    \/ rt_polls > 0 /\ rt_cfg.tests_is_running = "True"
    \/ rt_sent /\ rt_cfg.reply.error = "A Unity test run is already in progress."

\* C34: when the peer reports that a test run is already in progress,
\* run_tests returns a failure with hint 'retry', a reason of tests_running
\* or busy, and a retry_after_ms of at least 500.
C34_TestRunInProgressIsBusy ==
    (rt_pc = "done" /\ PeerReportedTestRun) =>
        /\ rt_ret.kind = "MCPResponse"
        /\ ~rt_ret.success
        /\ rt_ret.hint = "retry"
        /\ rt_ret.reason \in {"tests_running", "busy"}
        /\ rt_ret.retry_after_ms # None
        /\ rt_ret.retry_after_ms[1] >= 500

\* ---------------------------------------------------------------------------
\* refresh_unity (src/Server/src/services/tools/refresh_unity.py)
\* Time is counted in rounds of the readiness loop (one get_editor_state and
\* one sleep of 0.25 s).

MaxReadyPolls == 2

RefreshTimeoutS == 60
RefreshPollsPerSecond == 4

\* what send_with_unity_instance can hand back for refresh_unity; disconnected
\* tells whether the error text contains "disconnected"
RefreshReply(resp, success, disconnected) ==
    [resp |-> resp, success |-> success, disconnected |-> disconnected]

RefreshReplies ==
    {RefreshReply(Resp("dict", "None", "None", FALSE, None, None, "None"), TRUE, FALSE),
     RefreshReply(Resp("dict", "None", "None", FALSE, None, None, "retry"), FALSE, TRUE),
     RefreshReply(Resp("dict", "None", "None", FALSE, None, None, "None"), FALSE, TRUE),
     RefreshReply(Resp("dict", "None", "busy", FALSE, None, Some(500), "retry"), FALSE, FALSE),
     RefreshReply(Resp("dict", "None", "reloading", FALSE, None, Some(250), "retry"), FALSE, FALSE),
     RefreshReply(Resp("dict", "None", "None", TRUE, None, None, "retry"), FALSE, FALSE),
     RefreshReply(Resp("dict", "None", "no_unity_session", FALSE, None, Some(250), "retry"), FALSE, FALSE),
     RefreshReply(Resp("dict", "None", "None", FALSE, None, None, "None"), FALSE, FALSE),
     RefreshReply(Resp("other", "None", "None", FALSE, None, None, "None"), TRUE, FALSE)}

\* the instance is named by the context, found by infer_single_instance_id,
\* or not known at all; the editor is ready from the snapshot numbered
\* ready_from on (MaxReadyPolls + 1 stands for: never)
RfConfigs ==
    [wait_for_ready : BOOLEAN,
     reply : RefreshReplies,
     instance : {"context", "inferred", "unknown"},
     ready_from : 1..(MaxReadyPolls + 1),
     dirty : BOOLEAN]

IsRetryableHintOnly(hint, disconnected) == hint = "retry"

\* is_retryable = (hint == "retry") or ("disconnected" in str(err).lower())
IsRetryable(hint, disconnected) == hint = "retry" \/ disconnected

\* advice.ready_for_tools is True in the snapshot numbered poll
ReadyForTools(cfg, poll) == cfg.ready_from <= MaxReadyPolls /\ poll >= cfg.ready_from

\* MCPResponse(**response) if isinstance(response, dict) else response
AsToolResult(reply) ==
    [kind |-> IF reply.resp.type = "dict" THEN "MCPResponse" ELSE "other",
     success |-> reply.success, hint |-> reply.resp.hint,
     reason |-> reply.resp.reason, recovered_from_disconnect |-> FALSE]

RfInit ==
    /\ rf_cfg \in RfConfigs
    /\ rf_pc = "call"
    /\ rf_polls = 0
    /\ rf_recovered = FALSE
    /\ rf_dirty = rf_cfg.dirty
    /\ rf_ret = [kind |-> "none"]

\* lines 45-65: send, then give up, or note the recovery
RefreshSend ==
    /\ rf_pc = "call"
    /\ LET reply == rf_cfg.reply
           failed == reply.resp.type = "dict" /\ ~reply.success
           reason == ExtractResponseReason(reply.resp)
       IN  IF failed /\ (~rf_cfg.wait_for_ready
                          \/ ~IsRetryable(reply.resp.hint, reply.disconnected))
           THEN /\ rf_ret' = AsToolResult(reply)
                /\ rf_pc' = "done"
                /\ UNCHANGED rf_recovered
           ELSE /\ rf_recovered' = (failed /\ reason \notin {"reloading", "no_unity_session"})
                /\ rf_pc' = IF rf_cfg.wait_for_ready THEN "wait" ELSE "clear"
                /\ UNCHANGED rf_ret
    /\ UNCHANGED <<rf_cfg, rf_polls, rf_dirty>>
    /\ UNCHANGED notRf

\* readiness loop: one snapshot; break when ready, sleep otherwise
RefreshPoll ==
    /\ rf_pc = "wait"
    /\ rf_polls < RefreshTimeoutS * RefreshPollsPerSecond
    /\ rf_polls' = rf_polls + 1
    /\ rf_pc' = IF ReadyForTools(rf_cfg, rf_polls + 1) THEN "clear" ELSE "wait"
    /\ UNCHANGED <<rf_cfg, rf_recovered, rf_dirty, rf_ret>>
    /\ UNCHANGED notRf

\* readiness loop: 60 s are over
RefreshWaitTimeout ==
    /\ rf_pc = "wait"
    /\ rf_polls >= RefreshTimeoutS * RefreshPollsPerSecond
    /\ rf_pc' = "clear"
    /\ UNCHANGED <<rf_cfg, rf_polls, rf_recovered, rf_dirty, rf_ret>>
    /\ UNCHANGED notRf

\* lines 85-100: clear_dirty(inst) if the instance is known, then return
RefreshClearAndReturn ==
    /\ rf_pc = "clear"
    /\ rf_dirty' = IF rf_cfg.instance # "unknown" THEN FALSE ELSE rf_dirty
    /\ rf_ret' = IF rf_recovered
                 THEN [kind |-> "MCPResponse", success |-> TRUE, hint |-> "None",
                       reason |-> "None", recovered_from_disconnect |-> TRUE]
                 ELSE AsToolResult(rf_cfg.reply)
    /\ rf_pc' = "done"
    /\ UNCHANGED <<rf_cfg, rf_polls, rf_recovered>>
    /\ UNCHANGED notRf

RfNext ==
    \/ RefreshSend
    \/ RefreshPoll
    \/ RefreshWaitTimeout
    \/ RefreshClearAndReturn

InitRfSpec ==
    RfInit /\ RecvIdle /\ RetryIdle /\ HubIdle /\ FastIdle /\ ResIdle /\ ScanIdle /\ ConnIdle /\ IoIdle /\ PreIdle /\ PoolIdle /\ SessIdle /\ MwIdle /\ CpIdle /\ RtIdle /\ EcsIdle

SpecRf == InitRfSpec /\ [][RfNext]_vars

\* the transport answered with a failure that has hint 'retry' or an error
\* text with 'disconnected'
RetryableFailure ==
    /\ rf_cfg.reply.resp.type = "dict"
    /\ ~rf_cfg.reply.success
    /\ (rf_cfg.reply.resp.hint = "retry" \/ rf_cfg.reply.disconnected)

RecoveredResult ==
    /\ rf_ret.kind = "MCPResponse"
    /\ rf_ret.success
    /\ rf_ret.recovered_from_disconnect

\* C35 as stated: with wait_for_ready, any failure with hint 'retry' (or a
\* 'disconnected' error) ends, after polling readiness, in success with
\* recovered_from_disconnect = true and a cleared dirty flag.
C35_AsStated ==
    (rf_pc = "done" /\ rf_cfg.wait_for_ready /\ RetryableFailure) =>
        /\ rf_polls >= 1
        /\ RecoveredResult
        /\ rf_cfg.instance # "unknown" => ~rf_dirty

\* C35, amended: with wait_for_ready, a failure with hint 'retry' (or a
\* 'disconnected' error) makes refresh_unity poll readiness and clear the
\* dirty flag of the instance; it then returns success with
\* recovered_from_disconnect = true unless the reason of the failure is
\* reloading or no_unity_session, in which case the failure itself is
\* returned.
C35_RecoversUnlessReloadingOrNoSession ==
    (rf_pc = "done" /\ rf_cfg.wait_for_ready /\ RetryableFailure) =>
        /\ rf_polls >= 1
        /\ rf_cfg.instance # "unknown" => ~rf_dirty
        /\ IF ExtractResponseReason(rf_cfg.reply.resp) \in {"reloading", "no_unity_session"}
           THEN ~rf_ret.success /\ ~rf_ret.recovered_from_disconnect
           ELSE RecoveredResult

\* C35 witness: a 'disconnected' error without hint, an editor that became
\* ready at the second snapshot, a dirty flag that was set and is cleared.
C35_Witness ==
    /\ rf_pc = "done"
    /\ rf_cfg.wait_for_ready
    /\ rf_cfg.reply.disconnected /\ rf_cfg.reply.resp.hint = "None"
    /\ rf_cfg.dirty /\ ~rf_dirty
    /\ rf_polls = 2
    /\ RecoveredResult

\* ---------------------------------------------------------------------------
\* ExternalChangesScanner (src/Server/src/services/state/external_changes_scanner.py)
\* The clock counts steps of 500 ms.

MaxMtime == 3
MaxEcsNow == 6

ScanIntervalMs == 1500
EcsTickMs == 500

EcsInstances == {"P@x"}

\* ExternalChangesState() as the dataclass creates it
NewExternalChangesState ==
    [project_root |-> FALSE, last_scan_unix_ms |-> None, last_seen_mtime_ns |-> None,
     dirty |-> FALSE, dirty_since_unix_ms |-> None, last_cleared_unix_ms |-> None]

\* self._states.setdefault(instance_id, ExternalChangesState())
GetState(states, instance_id) ==
    IF instance_id \in DOMAIN states THEN states[instance_id] ELSE NewExternalChangesState

WithState(states, instance_id, st) ==
    [id \in DOMAIN states \cup {instance_id} |->
        IF id = instance_id THEN st ELSE states[id]]

IsNewerOrEqual(newest, last_seen) == newest >= last_seen

\* newest > st.last_seen_mtime_ns
IsNewer(newest, last_seen) == newest > last_seen

\* update_and_get without the gate for pytest: the state afterwards
Scanned(st, t, newest) ==
    IF /\ st.last_scan_unix_ms # None
       /\ (t - st.last_scan_unix_ms[1]) * EcsTickMs < ScanIntervalMs
    THEN st
    ELSE LET st1 == [st EXCEPT !.last_scan_unix_ms = Some(t)]
         IN  IF ~st1.project_root \/ newest = None THEN st1
             ELSE IF st1.last_seen_mtime_ns = None
                 THEN [st1 EXCEPT !.last_seen_mtime_ns = newest]
             ELSE IF IsNewer(newest[1], st1.last_seen_mtime_ns[1])
                 THEN [st1 EXCEPT !.last_seen_mtime_ns = newest,
                                  !.dirty = TRUE,
                                  !.dirty_since_unix_ms =
                                      IF st1.dirty THEN @ ELSE Some(t)]
             ELSE st1

\* the call got as far as comparing a newest mtime with the state
DidScan(st, t, newest, in_pytest) ==
    /\ ~in_pytest
    /\ ~(/\ st.last_scan_unix_ms # None
         /\ (t - st.last_scan_unix_ms[1]) * EcsTickMs < ScanIntervalMs)
    /\ st.project_root
    /\ newest # None

EcsInit ==
    /\ ecs_states = <<>>
    /\ ecs_now = 0
    /\ ecs_fs \in [EcsInstances -> {None, Some(1)}]
    /\ ecs_last = [kind |-> "none"]

\* set_project_root(instance_id, project_root) with a non-empty root
SetProjectRoot(id) ==
    /\ ecs_states' = WithState(ecs_states, id,
                               [GetState(ecs_states, id) EXCEPT !.project_root = TRUE])
    /\ ecs_last' = [kind |-> "set_project_root", id |-> id]
    /\ UNCHANGED <<ecs_now, ecs_fs>>
    /\ UNCHANGED notEcs

\* clear_dirty(instance_id)
ClearDirty(id) ==
    /\ ecs_states' = WithState(ecs_states, id,
                               [GetState(ecs_states, id) EXCEPT
                                    !.dirty = FALSE,
                                    !.dirty_since_unix_ms = None,
                                    !.last_cleared_unix_ms = Some(ecs_now),
                                    !.last_seen_mtime_ns = None])
    /\ ecs_last' = [kind |-> "clear_dirty", id |-> id]
    /\ UNCHANGED <<ecs_now, ecs_fs>>
    /\ UNCHANGED notEcs

\* update_and_get(instance_id)
UpdateAndGet(id, in_pytest) ==
    LET st == GetState(ecs_states, id)
        after == IF in_pytest THEN st ELSE Scanned(st, ecs_now, ecs_fs[id])
    IN  /\ ecs_states' = WithState(ecs_states, id, after)
        /\ ecs_last' = [kind |-> "update_and_get", id |-> id,
                        scanned |-> DidScan(st, ecs_now, ecs_fs[id], in_pytest),
                        newest |-> ecs_fs[id],
                        external_changes_dirty |-> after.dirty]
        /\ UNCHANGED <<ecs_now, ecs_fs>>
        /\ UNCHANGED notEcs

\* files below a project root are written, touched or deleted
FsChange(id, newest) ==
    /\ ecs_fs[id] # newest
    /\ ecs_fs' = [ecs_fs EXCEPT ![id] = newest]
    /\ ecs_last' = [kind |-> "fs", id |-> id]
    /\ UNCHANGED <<ecs_states, ecs_now>>
    /\ UNCHANGED notEcs

\* time goes by
EcsTick ==
    /\ ecs_now < MaxEcsNow
    /\ ecs_now' = ecs_now + 1
    /\ ecs_last' = [kind |-> "tick"]
    /\ UNCHANGED <<ecs_states, ecs_fs>>
    /\ UNCHANGED notEcs

EcsNext ==
    \/ \E id \in EcsInstances : SetProjectRoot(id)
    \/ \E id \in EcsInstances : ClearDirty(id)
    \/ \E id \in EcsInstances, in_pytest \in BOOLEAN : UpdateAndGet(id, in_pytest)
    \/ \E id \in EcsInstances, m \in 1..MaxMtime : FsChange(id, Some(m))
    \/ \E id \in EcsInstances : FsChange(id, None)
    \/ EcsTick

InitEcsSpec ==
    EcsInit /\ RecvIdle /\ RetryIdle /\ HubIdle /\ FastIdle /\ ResIdle /\ ScanIdle /\ ConnIdle /\ IoIdle /\ PreIdle /\ PoolIdle /\ SessIdle /\ MwIdle /\ CpIdle /\ RtIdle /\ RfIdle

SpecEcs == InitEcsSpec /\ [][EcsNext]_vars

\* C36: a state without baseline is never dirty; a scan without baseline
\* (the first after creation or after clear_dirty) records the newest mtime
\* as baseline and reports not dirty; a scan with a baseline reports dirty
\* exactly when the flag was on already or the newest mtime is strictly
\* greater than the baseline; the flag goes off only by clear_dirty.
C36_DirtyFromBaselineUntilCleared ==
    /\ [](\A id \in DOMAIN ecs_states :
              ecs_states[id].last_seen_mtime_ns = None => ~ecs_states[id].dirty)
    /\ [][(ecs_last'.kind = "update_and_get" /\ ecs_last'.scanned /\ ecs_last' # ecs_last) =>
              LET id == ecs_last'.id
                  before == IF id \in DOMAIN ecs_states
                            THEN ecs_states[id].last_seen_mtime_ns ELSE None
                  was_dirty == id \in DOMAIN ecs_states /\ ecs_states[id].dirty
              IN  /\ ecs_last'.external_changes_dirty = ecs_states'[id].dirty
                  /\ before = None =>
                         /\ ~ecs_states'[id].dirty
                         /\ ecs_states'[id].last_seen_mtime_ns = ecs_last'.newest
                  /\ before # None =>
                         ecs_states'[id].dirty =
                             (was_dirty \/ ecs_last'.newest[1] > before[1])]_vars
    /\ [][\A id \in DOMAIN ecs_states :
              (ecs_states[id].dirty /\ ~ecs_states'[id].dirty) =>
                  (ecs_last'.kind = "clear_dirty" /\ ecs_last'.id = id)]_vars

\* C36 witness: an instance was dirty, was cleared, got a new baseline from
\* the next scan and reports not dirty although its files are newer than
\* at the very first scan.
C36_Witness ==
    /\ ecs_last.kind = "update_and_get" /\ ecs_last.scanned
    /\ ecs_last.id = "P@x"
    /\ ~ecs_last.external_changes_dirty
    /\ ecs_states["P@x"].last_cleared_unix_ms # None
    /\ ecs_states["P@x"].last_seen_mtime_ns = Some(2)

====
